---- MODULE Spec2Model ----
(***************************************************************************)
(* Model of the OCR text-to-table pipeline of ocr_ai.service.js            *)
(* (src/unnamed/part_000; src/test.js holds an older copy).                *)
(*                                                                         *)
(* A JavaScript string is a sequence of characters; a character is a       *)
(* one-element TLA+ string.  Characters outside ASCII are written by code  *)
(* point ("U+B2E8").  A regular expression is a tree (records) that the   *)
(* operator Ends interprets with JavaScript's backtracking order.          *)
(***************************************************************************)
EXTENDS Integers, Sequences, FiniteSets, TLC

VARIABLES
  vatIn, vatOut,                 \* calculateVAT: argument, returned value
  ocrText, cleanedText, applied, \* cleanOcrText: argument, result, number of applications
  lines, slice,                  \* sliceRowsBetweenHeaderFooter: argument, result
  rowsIn, kept, removed, numericQueue, firstQueueFill, trace,
                                 \* cleanRowsWithRules: rows consumed so far and the loop's locals
  row, schemaValidation, parsedItems, mainPc,
                                 \* main, steps 5.5 to 7, on one cleaned row
  refinedData, calls,            \* main, steps 1 to 7: the object sent on, the runs completed
  entryPoint, runPc, environment,
                                 \* main as a whole: the file run, the statement reached,
                                 \* the image and the API key it finds
  resizedImagePath, isTemporaryFile, tempFiles
                                 \* main's locals for the resized image; the files on disk

\* the variables of a run of main from the image to the clean-up
runFrame == <<entryPoint, runPc, environment, resizedImagePath, isTemporaryFile, tempFiles>>

vars == <<vatIn, vatOut, ocrText, cleanedText, applied, lines, slice,
          rowsIn, kept, removed, numericQueue, firstQueueFill, trace,
          row, schemaValidation, parsedItems, mainPc, refinedData, calls, runFrame>>

-----------------------------------------------------------------------------
(* Characters *)

Digits == {"0", "1", "2", "3", "4", "5", "6", "7", "8", "9"}
LowerSeq == <<"a", "b", "c", "d", "e", "f", "g", "h", "i", "j", "k", "l", "m",
              "n", "o", "p", "q", "r", "s", "t", "u", "v", "w", "x", "y", "z">>
UpperSeq == <<"A", "B", "C", "D", "E", "F", "G", "H", "I", "J", "K", "L", "M",
              "N", "O", "P", "Q", "R", "S", "T", "U", "V", "W", "X", "Y", "Z">>
Latin == {LowerSeq[k] : k \in 1..26} \cup {UpperSeq[k] : k \in 1..26}
\* \s of a JavaScript regular expression (the members that occur in the model)
Space == {" ", "\t", "\n", "\r"}
\* \w of a JavaScript regular expression
WordChars == Latin \cup Digits \cup {"_"}

\* the characters outside ASCII, named by code point: Hangul syllables, the
\* Hangul letter (jamo) U+3163, the en dash and the em dash
Ch == [ga |-> "U+AC00", gyeok |-> "U+ACA9", gyeong |-> "U+ACBD",
       gyu |-> "U+ADDC", dan |-> "U+B2E8", ryang |-> "U+B7C9",
       myeong |-> "U+BA85", mok |-> "U+BAA9", bak |-> "U+BC15",
       baek |-> "U+BC31", sa |-> "U+C0AC", su |-> "U+C218",
       a |-> "U+C544", yeo |-> "U+C5EC", yeong |-> "U+C601",
       won |-> "U+C6D0", i |-> "U+C774", in |-> "U+C778",
       ja |-> "U+C790", chul |-> "U+CD9C", teuk |-> "U+D2B9",
       pum |-> "U+D488", ha |-> "U+D558", heo |-> "U+D5C8",
       jamo_i |-> "U+3163", enDash |-> "U+2013", emDash |-> "U+2014"]
\* the character class [U+AC00-U+D7A3] restricted to the syllables that occur in the model
Hangul == {Ch[f] : f \in DOMAIN Ch \ {"jamo_i", "enDash", "emDash"}}

\* both cases of a character (the i flag)
BothCases(c) ==
  IF c \in Latin
    THEN LET k == CHOOSE n \in 1..26 : LowerSeq[n] = c \/ UpperSeq[n] = c
         IN  {LowerSeq[k], UpperSeq[k]}
    ELSE {c}

-----------------------------------------------------------------------------
(* Sequences *)

RECURSIVE Flatten(_)
Flatten(ss) == IF ss = <<>> THEN <<>> ELSE Head(ss) \o Flatten(Tail(ss))

RECURSIVE JoinWith(_, _)
\* Array.prototype.join
JoinWith(ss, sep) ==
  IF ss = <<>> THEN <<>>
  ELSE IF Len(ss) = 1 THEN ss[1]
  ELSE ss[1] \o sep \o JoinWith(Tail(ss), sep)

\* String.prototype.slice(a, b) with 0 <= a, b: the characters of index a .. b-1
Slice(s, a, b) == IF a >= b THEN <<>> ELSE SubSeq(s, a + 1, IF b > Len(s) THEN Len(s) ELSE b)

\* String.prototype.trim
Trim(s) ==
  LET keep == {k \in 1..Len(s) : s[k] \notin Space}
  IN  IF keep = {} THEN <<>>
      ELSE SubSeq(s, CHOOSE k \in keep : \A j \in keep : k <= j,
                     CHOOSE k \in keep : \A j \in keep : k >= j)

\* s.replace(/[...]/g, ''): the characters of s outside cs
Without(s, cs) == SelectSeq(s, LAMBDA c : c \notin cs)

AllDigits(s) == \A k \in 1..Len(s) : s[k] \in Digits

RECURSIVE SeqMin(_)
SeqMin(ns) == IF Len(ns) = 1 THEN ns[1]
              ELSE LET m == SeqMin(Tail(ns)) IN IF ns[1] <= m THEN ns[1] ELSE m

-----------------------------------------------------------------------------
(* Regular expressions *)

ReSet(cs) == [t |-> "set", cs |-> cs]
ReNot(cs) == [t |-> "nset", cs |-> cs]
ReCat(xs) == [t |-> "cat", xs |-> xs]
ReAlt(xs) == [t |-> "alt", xs |-> xs]
ReStar(x) == [t |-> "star", x |-> x]
ReOpt(x) == [t |-> "alt", xs |-> <<x, [t |-> "cat", xs |-> <<>>]>>]
RePlus(x) == [t |-> "cat", xs |-> <<x, [t |-> "star", x |-> x]>>]
ReBol == [t |-> "bol"]
ReEol == [t |-> "eol"]
ReWb == [t |-> "wb"]
ReCh(c) == ReSet({c})
\* a literal word under the i flag (every literal of the source carries it)
ReWordI(w) == ReCat([k \in 1..Len(w) |-> ReSet(BothCases(w[k]))])
RECURSIVE ReTimes(_, _)
\* x{n}
ReTimes(x, n) == IF n = 0 THEN <<>> ELSE <<x>> \o ReTimes(x, n - 1)
RECURSIVE ReUpTo(_, _)
\* x{0,n}
ReUpTo(x, n) == IF n = 0 THEN ReCat(<<>>) ELSE ReOpt(ReCat(<<x, ReUpTo(x, n - 1)>>))
\* x{m,n}
ReRange(x, m, n) == ReCat(ReTimes(x, m) \o <<ReUpTo(x, n - m)>>)
\* x{m,}
ReAtLeast(x, m) == ReCat(ReTimes(x, m) \o <<ReStar(x)>>)

IsWordAt(s, k) == k >= 1 /\ k <= Len(s) /\ s[k] \in WordChars

RECURSIVE Ends(_, _, _)
RECURSIVE EndsFrom(_, _, _)
RECURSIVE EndsStar(_, _, _)
(* The positions (0..Len(s)) at which a match of re that starts at position i
   can end, in the order in which a backtracking matcher tries them. *)
Ends(re, s, i) ==
  CASE re.t = "set" -> IF i < Len(s) /\ s[i + 1] \in re.cs THEN <<i + 1>> ELSE <<>>
    [] re.t = "nset" -> IF i < Len(s) /\ s[i + 1] \notin re.cs THEN <<i + 1>> ELSE <<>>
    [] re.t = "bol" -> IF i = 0 THEN <<i>> ELSE <<>>
    [] re.t = "eol" -> IF i = Len(s) THEN <<i>> ELSE <<>>
    [] re.t = "wb" -> IF IsWordAt(s, i) # IsWordAt(s, i + 1) THEN <<i>> ELSE <<>>
    [] re.t = "cat" ->
         IF re.xs = <<>> THEN <<i>>
         ELSE EndsFrom(ReCat(Tail(re.xs)), s, Ends(Head(re.xs), s, i))
    [] re.t = "alt" ->
         IF re.xs = <<>> THEN <<>>
         ELSE Ends(Head(re.xs), s, i) \o Ends(ReAlt(Tail(re.xs)), s, i)
    [] re.t = "star" -> EndsStar(re, s, Ends(re.x, s, i)) \o <<i>>
\* re continued from each of the positions js
EndsFrom(re, s, js) ==
  IF js = <<>> THEN <<>> ELSE Ends(re, s, Head(js)) \o EndsFrom(re, s, Tail(js))
\* one more round of a greedy star from each of the positions js
EndsStar(re, s, js) ==
  IF js = <<>> THEN <<>> ELSE Ends(re, s, Head(js)) \o EndsStar(re, s, Tail(js))

RECURSIVE MatchFrom(_, _, _)
\* the match of String.prototype.match / RegExp.prototype.exec: the leftmost
\* start at or after position from, with the first end the matcher finds there
MatchFrom(re, s, from) ==
  LET try(ends) ==
        IF ends # <<>> THEN [found |-> TRUE, index |-> from, end |-> ends[1]]
        ELSE IF from >= Len(s) THEN [found |-> FALSE, index |-> 0, end |-> 0]
        ELSE MatchFrom(re, s, from + 1)
  IN  try(Ends(re, s, from))
Match(re, s) == MatchFrom(re, s, 0)
\* RegExp.prototype.test
Test(re, s) == \E p \in 0..Len(s) : Ends(re, s, p) # <<>>

-----------------------------------------------------------------------------
(* JavaScript values: numbers, strings, null, undefined, NaN *)

Num(n) == [k |-> "num", n |-> n, s |-> <<>>]
Str(s) == [k |-> "str", n |-> 0, s |-> s]
Null == [k |-> "null", n |-> 0, s |-> <<>>]
Undefined == [k |-> "undefined", n |-> 0, s |-> <<>>]
NaN == [k |-> "NaN", n |-> 0, s |-> <<>>]
\* the value of a variable before the function that sets it has been called
Pending == [k |-> "pending", n |-> 0, s |-> <<>>]
\* ToBoolean
Truthy(v) ==
  CASE v.k = "num" -> v.n # 0
    [] v.k = "str" -> v.s # <<>>
    [] OTHER -> FALSE

-----------------------------------------------------------------------------
(* IEEE-754 double arithmetic on naturals below 2^20, written as little-endian
   lists of 11-bit limbs (base 2048), so that no intermediate value leaves the
   32-bit integers of the model checker *)

Pow2(n) == <<1, 2, 4, 8, 16, 32, 64, 128, 256, 512, 1024, 2048>>[n + 1]

RECURSIVE MulLimbs(_, _, _)
\* the limbs of a * s + carry, for a natural s below 2^20
MulLimbs(a, s, carry) ==
  IF a = <<>>
    THEN IF carry = 0 THEN <<>> ELSE <<carry % 2048>> \o MulLimbs(<<>>, s, carry \div 2048)
    ELSE LET t == Head(a) * s + carry
         IN  <<t % 2048>> \o MulLimbs(Tail(a), s, t \div 2048)
RECURSIVE AddLimbs(_, _, _)
AddLimbs(a, b, carry) ==
  IF a = <<>> /\ b = <<>> THEN (IF carry = 0 THEN <<>> ELSE <<carry>>)
  ELSE LET x == IF a = <<>> THEN 0 ELSE Head(a)
           y == IF b = <<>> THEN 0 ELSE Head(b)
           t == x + y + carry
       IN  <<t % 2048>> \o AddLimbs(IF a = <<>> THEN <<>> ELSE Tail(a),
                                    IF b = <<>> THEN <<>> ELSE Tail(b), t \div 2048)
RECURSIVE LimbsToNat(_)
LimbsToNat(a) == IF a = <<>> THEN 0 ELSE Head(a) + 2048 * LimbsToNat(Tail(a))
\* the double nearest to 0.1 is 0xCCCCCCCCCCCCD * 2^-55 = 3602879701896397 * 2^-55
TenthSignificand == <<1229, 409, 819, 1638, 204>>

\* an exact natural rounded to the 53 significant bits of a double,
\* round-to-nearest, ties-to-even
RoundToDouble(p) ==
  LET \* the number of significant bits of p, whose last limb is not 0
      bitLen == IF p = <<>> THEN 0
                ELSE 11 * (Len(p) - 1)
                     + (CHOOSE n \in 1..11 : Pow2(n - 1) <= p[Len(p)] /\ p[Len(p)] < Pow2(n))
      sh == bitLen - 53
      \* bit i (from 0) of p
      bit(i) == IF i \div 11 + 1 > Len(p) THEN 0 ELSE (p[i \div 11 + 1] \div Pow2(i % 11)) % 2
      \* p with its sh lowest bits cleared
      cleared == [j \in 1..Len(p) |->
                    LET lo == 11 * (j - 1)
                    IN  IF lo + 11 <= sh THEN 0
                        ELSE IF lo >= sh THEN p[j]
                        ELSE (p[j] \div Pow2(sh - lo)) * Pow2(sh - lo)]
      \* the limbs of 2^sh
      ulp == [j \in 1..(sh \div 11 + 1) |-> IF j = sh \div 11 + 1 THEN Pow2(sh % 11) ELSE 0]
      sticky == \E i \in 0..(sh - 2) : bit(i) = 1
      up == bit(sh - 1) = 1 /\ (sticky \/ bit(sh) = 1)
  IN  IF sh <= 0 THEN p
      ELSE IF up THEN AddLimbs(cleared, ulp, 0) ELSE cleared

\* the double s * 0.1 for a natural s below 2^20, in units of 2^-55
TimesTenth(s) == RoundToDouble(MulLimbs(TenthSignificand, s, 0))

\* Math.ceil of a double given in units of 2^-55 (55 bits are 5 limbs)
MathCeil(d) ==
  LET whole == IF Len(d) > 5 THEN LimbsToNat(SubSeq(d, 6, Len(d))) ELSE 0
      frac == \E j \in 1..Len(d) : j <= 5 /\ d[j] # 0
  IN  IF frac THEN whole + 1 ELSE whole

-----------------------------------------------------------------------------
(* VATCalculator *)

\* a plausible slip: the VAT rounded down
calculateVAT_floor(supplyAmount) ==
  IF supplyAmount.k # "num" \/ supplyAmount.n = 0 THEN Num(0)
  ELSE Num(supplyAmount.n \div 10)

\* function calculateVAT(supplyAmount)
calculateVAT(supplyAmount) ==
  \* isNaN(v): Number(undefined) is NaN, Number(null) is 0
  IF ~Truthy(supplyAmount) \/ supplyAmount.k \in {"NaN", "undefined"} THEN Num(0)
  ELSE Num(MathCeil(TimesTenth(supplyAmount.n)))

-----------------------------------------------------------------------------
(* TextNormalizer *)

IsPrefixAt(s, k, pat) ==
  k + Len(pat) - 1 <= Len(s) /\ \A j \in 1..Len(pat) : s[k + j - 1] = pat[j]

RECURSIVE ReplaceAllFrom(_, _, _, _)
\* the matches are taken from left to right, each search resuming after the last match
ReplaceAllFrom(s, k, pat, rep) ==
  LET hits == {j \in k..Len(s) : IsPrefixAt(s, j, pat)}
      upTo(j) == Slice(s, k - 1, j - 1) \o rep \o ReplaceAllFrom(s, j + Len(pat), pat, rep)
  IN  IF hits = {} THEN Slice(s, k - 1, Len(s))
      ELSE upTo(CHOOSE h \in hits : \A g \in hits : h <= g)
\* s.replace(/pat/g, rep) for a literal pattern
ReplaceAll(s, pat, rep) == ReplaceAllFrom(s, 1, pat, rep)

RECURSIVE SplitFrom(_, _, _)
SplitFrom(s, k, c) ==
  LET hits == {j \in k..Len(s) : s[j] = c}
  IN  IF hits = {} THEN <<Slice(s, k - 1, Len(s))>>
      ELSE LET j == CHOOSE h \in hits : \A g \in hits : h <= g
           IN  <<Slice(s, k - 1, j - 1)>> \o SplitFrom(s, j + 1, c)
\* s.split(/c/) for a single character c
SplitOn(s, c) == SplitFrom(s, 1, c)

RECURSIVE CollapseFrom(_, _)
\* the runs of two or more are taken from left to right, each to its full extent
CollapseFrom(s, k) ==
  LET runs == {j \in k..(Len(s) - 1) : s[j] \in Space /\ s[j + 1] \in Space}
      endOf(j) == CHOOSE e \in (j + 1)..Len(s) :
                    /\ \A m \in j..e : s[m] \in Space
                    /\ (e = Len(s) \/ s[e + 1] \notin Space)
      upTo(j, e) == Slice(s, k - 1, j - 1) \o <<" ">> \o CollapseFrom(s, e + 1)
      from(j) == upTo(j, endOf(j))
  IN  IF runs = {} THEN Slice(s, k - 1, Len(s))
      ELSE from(CHOOSE h \in runs : \A g \in runs : h <= g)
\* line.replace(/\s{2,}/g, ' ')
CollapseSpaces(s) == CollapseFrom(s, 1)

\* s.match(/^\s*"([\s\S]*?)"\s*,?\s*$/): found, and group 1 (the lazy group
\* takes the shortest extent after which the closing part matches)
WrapMatch(s) ==
  LET open == Ends(ReCat(<<ReBol, ReStar(ReSet(Space)), ReCh("\"")>>), s, 0)
      close == ReCat(<<ReCh("\""), ReStar(ReSet(Space)), ReOpt(ReCh(",")),
                       ReStar(ReSet(Space)), ReEol>>)
      ends == {e \in open[1]..Len(s) : Ends(close, s, e) # <<>>}
  IN  IF open = <<>> \/ ends = {} THEN [found |-> FALSE, inner |-> <<>>]
      ELSE [found |-> TRUE,
            inner |-> Slice(s, open[1], CHOOSE e \in ends : \A d \in ends : e <= d)]

\* const wrap = s.match(...); if (wrap) s = wrap[1];
StripWrapper(s) == LET wrap == WrapMatch(s) IN IF wrap.found THEN wrap.inner ELSE s

\* line => line.replace(/\s{2,}/g, ' ').trim()
CleanLine(line) == Trim(CollapseSpaces(line))

\* the lines of cleanOcrText before they are joined
cleanOcrLines(text) ==
  LET s1 == ReplaceAll(ReplaceAll(ReplaceAll(text, <<"\\", "r", "\\", "n">>, <<"\n">>),
                                  <<"\\", "n">>, <<"\n">>),
                       <<"\\", "t">>, <<"\t">>)
      s2 == ReplaceAll(ReplaceAll(s1, <<"\r", "\n">>, <<"\n">>), <<"\r">>, <<"\n">>)
      s3 == StripWrapper(s2)
      s4 == ReplaceAll(s3, <<"\t">>, <<" ", "|", " ">>)
      ls == SplitOn(s4, "\n")
      cleaned == [k \in 1..Len(ls) |-> CleanLine(ls[k])]
  IN  SelectSeq(cleaned, LAMBDA line : Len(line) > 0)

\* function cleanOcrText(ocrText)
cleanOcrText(text) == JoinWith(cleanOcrLines(text), <<"\n">>)

-----------------------------------------------------------------------------
(* Cells of a line *)

\* s.replace(re, rep): the first match replaced
ReplaceFirst(re, s, rep) ==
  LET put(m) == IF m.found THEN Slice(s, 0, m.index) \o rep \o Slice(s, m.end, Len(s)) ELSE s
  IN  put(Match(re, s))

RECURSIVE SplitRe(_, _, _)
\* s.split(re) from position p, for a separator that matches no empty string
SplitRe(re, s, p) ==
  LET cut(m) == IF p >= Len(s) \/ ~m.found \/ m.index >= Len(s) THEN <<Slice(s, p, Len(s))>>
                ELSE <<Slice(s, p, m.index)>> \o SplitRe(re, s, m.end)
  IN  cut(MatchFrom(re, s, p))

\* function splitToCols(line)
splitToCols(line) ==
  LET pipe == <<ReStar(ReSet(Space)), ReCh("|"), ReStar(ReSet(Space))>>
      \* .map(s => s.trim()).filter(s => s.length > 0)
      cells(parts) == SelectSeq([k \in 1..Len(parts) |-> Trim(parts[k])], LAMBDA c : c # <<>>)
      \* .replace(/\s*\|\s*$/, '').split(/\s*\|\s*/)
  IN  cells(SplitRe(ReCat(pipe), ReplaceFirst(ReCat(pipe \o <<ReEol>>), line, <<>>), 0))

\* newCols.join(' | ')
JoinCols(cs) == JoinWith(cs, <<" ", "|", " ">>)

-----------------------------------------------------------------------------
(* TableLocator *)

\* const FOOTER_MARKER_REGEX = /=+\s*(?:[U+C774 U+3163 I | l 1 U+C544]\s*)?U+D558 U+C5EC U+BC31\s*=+/i
FOOTER_MARKER_REGEX ==
  ReCat(<<RePlus(ReCh("=")), ReStar(ReSet(Space)),
          ReOpt(ReCat(<<ReSet({Ch.i, Ch.jamo_i, "I", "i", "|", "l", "L", "1", Ch.a}),
                        ReStar(ReSet(Space))>>)),
          ReCh(Ch.ha), ReCh(Ch.yeo), ReCh(Ch.baek), ReStar(ReSet(Space)), RePlus(ReCh("="))>>)

RECURSIVE LooseParts(_)
LooseParts(word) ==
  IF Len(word) <= 1 THEN [k \in 1..Len(word) |-> ReSet(BothCases(word[k]))]
  ELSE <<ReSet(BothCases(word[1])), ReStar(ReSet(Space))>> \o LooseParts(Tail(word))
\* function makeLooseRegexFromKeyword(word): the characters joined by \s*, flag i
makeLooseRegexFromKeyword(word) == ReCat(LooseParts(word))
\* function buildVariantsRegex(variants)
buildVariantsRegex(variants) ==
  ReAlt([k \in 1..Len(variants) |-> makeLooseRegexFromKeyword(variants[k])])

\* s.replace(/\s+/g, '')
StripSpaces(s) == Without(s, Space)

\* function getCell(lines, rowIndex, colIndex), indices from 0; <<>> stands for null
getCell(ls, rowIndex, colIndex) ==
  LET cell(cs) == IF colIndex >= 0 /\ colIndex < Len(cs) THEN cs[colIndex + 1] ELSE <<>>
  IN  IF rowIndex < 0 \/ rowIndex >= Len(ls) THEN <<>> ELSE cell(splitToCols(ls[rowIndex + 1]))

\* the spans of findStitchedKeywords that start at column i of row r
StitchedAt(cs, r, i, targets, maxSpan) ==
  LET spans == SelectSeq([n \in 1..maxSpan |-> n], LAMBDA n : i + n - 1 < Len(cs))
      hit(n) == [rowIndex |-> r, startCol |-> i, endCol |-> i + n - 1,
                 stitched |-> JoinWith(SubSeq(cs, i + 1, i + n), <<" ">>),
                 normalized |-> StripSpaces(JoinWith(SubSeq(cs, i + 1, i + n), <<" ">>))]
      all == [k \in 1..Len(spans) |-> hit(spans[k])]
  IN  SelectSeq(all, LAMBDA h : h.normalized \in targets)

\* a plausible slip: the span loop stops after one cell
findStitchedKeywords_oneCell(ls, baseKeywords, maxSpan) ==
  LET targets == {StripSpaces(baseKeywords[k]) : k \in 1..Len(baseKeywords)}
      ofCols(cs, r) == Flatten([i \in 1..Len(cs) |-> StitchedAt(cs, r, i - 1, targets, 1)])
  IN  Flatten([r \in 1..Len(ls) |-> ofCols(splitToCols(ls[r]), r - 1)])

\* function findStitchedKeywords(lines, baseKeywords, maxSpan)
findStitchedKeywords(ls, baseKeywords, maxSpan) ==
  LET targets == {StripSpaces(baseKeywords[k]) : k \in 1..Len(baseKeywords)}
      ofCols(cs, r) ==
        Flatten([i \in 1..Len(cs) |-> StitchedAt(cs, r, i - 1, targets, maxSpan)])
  IN  Flatten([r \in 1..Len(ls) |-> ofCols(splitToCols(ls[r]), r - 1)])

\* function findCellsByKeywords(lines, variants)
findCellsByKeywords(ls, variants) ==
  LET ofCols(cs, r, regex) ==
        SelectSeq([c \in 1..Len(cs) |-> [rowIndex |-> r, colIndex |-> c - 1, value |-> cs[c]]],
                  LAMBDA h : Test(regex, h.value))
  IN  Flatten([r \in 1..Len(ls) |->
                 ofCols(splitToCols(ls[r]), r - 1, buildVariantsRegex(variants))])

\* map.set(key, value) on a Map kept as the list of its values in insertion order
MapSet(map, h) ==
  LET same(g) == g.rowIndex = h.rowIndex /\ g.startCol = h.startCol /\ g.endCol = h.endCol
  IN  IF \E k \in 1..Len(map) : same(map[k])
        THEN [k \in 1..Len(map) |-> IF same(map[k]) THEN h ELSE map[k]]
        ELSE Append(map, h)
RECURSIVE MapSetAll(_, _)
MapSetAll(map, hs) == IF hs = <<>> THEN map ELSE MapSetAll(MapSet(map, Head(hs)), Tail(hs))

\* function checkIsItHeaderLine(lines)
checkIsItHeaderLine(ls) ==
  LET \* seedCells.forEach(s => { if (normalized === target) map.set(...) })
      asHits(seeds) ==
        [k \in 1..Len(seeds) |->
           [rowIndex |-> seeds[k].rowIndex, startCol |-> seeds[k].colIndex,
            endCol |-> seeds[k].colIndex, stitched |-> seeds[k].cell,
            normalized |-> <<Ch.dan, Ch.ga>>]]
      whole(seeds) == SelectSeq(seeds, LAMBDA s : StripSpaces(s.cell) = <<Ch.dan, Ch.ga>>)
      withCell(seeds) ==
        [k \in 1..Len(seeds) |->
           [rowIndex |-> seeds[k].rowIndex, colIndex |-> seeds[k].colIndex,
            cell |-> getCell(ls, seeds[k].rowIndex, seeds[k].colIndex)]]
  IN  MapSetAll(MapSetAll(<<>>, findStitchedKeywords(ls, <<<<Ch.dan, Ch.ga>>>>, 2)),
                asHits(whole(withCell(
                  findCellsByKeywords(ls, <<<<Ch.dan>>, <<Ch.ga>>, <<Ch.dan, Ch.ga>>>>)))))

\* a plausible slip: banner and assignee hits compete, the lowest row wins
checkIsItFooterLine_lowestRow(ls) ==
  LET marker(r) == <<[type |-> "footer_marker", rowIndex |-> r, colIndex |-> Null,
                       value |-> ls[r + 1]]>>
      assignee(hit) == <<[type |-> "assignee", rowIndex |-> hit.rowIndex,
                          colIndex |-> Num(hit.colIndex), value |-> hit.value]>>
      first(S) == CHOOSE x \in S : \A y \in S : x <= y
      footer(markerRows, hits) ==
        IF markerRows # {} /\ \A k \in 1..Len(hits) : hits[k].rowIndex >= first(markerRows)
          THEN marker(first(markerRows))
        ELSE IF hits # <<>>
          THEN assignee(hits[CHOOSE k \in 1..Len(hits) :
                               \A j \in 1..Len(hits) :
                                 /\ hits[k].rowIndex <= hits[j].rowIndex
                                 /\ (j < k => hits[j].rowIndex > hits[k].rowIndex)])
        ELSE <<>>
  IN  footer({r \in 0..(Len(ls) - 1) : Test(FOOTER_MARKER_REGEX, ls[r + 1])},
             findCellsByKeywords(ls, <<<<Ch.in, Ch.su, Ch.ja>>>>))

\* function checkIsItFooterLine(lines)
checkIsItFooterLine(ls) ==
  LET marker(r) == <<[type |-> "footer_marker", rowIndex |-> r, colIndex |-> Null,
                       value |-> ls[r + 1]]>>
      assignee(hit) == <<[type |-> "assignee", rowIndex |-> hit.rowIndex,
                          colIndex |-> Num(hit.colIndex), value |-> hit.value]>>
      \* assigneeHits.reduce((a, b) => (a.rowIndex <= b.rowIndex ? a : b))
      earliest(hits) == hits[CHOOSE k \in 1..Len(hits) :
                          /\ \A j \in 1..Len(hits) : hits[k].rowIndex <= hits[j].rowIndex
                          /\ \A j \in 1..(k - 1) : hits[j].rowIndex > hits[k].rowIndex]
      footer(markerRows, assigneeHits) ==
        IF markerRows # {} THEN marker(CHOOSE x \in markerRows : \A y \in markerRows : x <= y)
        ELSE IF assigneeHits # <<>> THEN assignee(earliest(assigneeHits))
        ELSE <<>>
  IN  footer({r \in 0..(Len(ls) - 1) : Test(FOOTER_MARKER_REGEX, ls[r + 1])},
             findCellsByKeywords(ls, <<<<Ch.in, Ch.su, Ch.ja>>>>))

Min2(a, b) == IF a <= b THEN a ELSE b
Max2(a, b) == IF a >= b THEN a ELSE b

\* a plausible slip: the row before the banner is cut as well
EndCut_shifted(footer) ==
  IF footer.type = "footer_marker" THEN footer.rowIndex - 2
  ELSE IF footer.type = "assignee" THEN footer.rowIndex - 3
  ELSE footer.rowIndex

\* let endCut = firstFooter.rowIndex; if (type === 'footer_marker') ...; if (type === 'assignee') ...
EndCut(footer) ==
  IF footer.type = "footer_marker" THEN footer.rowIndex - 1
  ELSE IF footer.type = "assignee" THEN footer.rowIndex - 2
  ELSE footer.rowIndex

\* a plausible slip: without the early return on an empty header list, the
\* table starts at the first line
sliceRowsBetweenHeaderFooter_noGuard(ls) ==
  LET rows(start, end) ==
        [start |-> Num(start), end |-> Num(end),
         rows |-> IF start <= end THEN Slice(ls, start, end + 1) ELSE <<>>]
      between(headerIndex, footers) ==
        IF footers = <<>>
          THEN [start |-> Num(headerIndex + 1), end |-> Null,
                rows |-> Slice(ls, headerIndex + 1, Len(ls))]
        ELSE rows(Min2(Max2(headerIndex + 1, 0), Len(ls)),
                  Max2(Min2(EndCut(footers[1]), Len(ls) - 1), -1))
      from(headers) ==
        between(IF headers = <<>> THEN -1
                ELSE SeqMin([k \in 1..Len(headers) |-> headers[k].rowIndex]),
                checkIsItFooterLine(ls))
  IN  from(checkIsItHeaderLine(ls))

\* function sliceRowsBetweenHeaderFooter(lines)
sliceRowsBetweenHeaderFooter(ls) ==
  LET rows(start, end) ==
        [start |-> Num(start), end |-> Num(end),
         rows |-> IF start <= end THEN Slice(ls, start, end + 1) ELSE <<>>]
      \* footers.reduce(...) over a list of one footer: firstFooter = footers[1]
      between(headerIndex, footers) ==
        IF footers = <<>>
          THEN [start |-> Num(headerIndex + 1), end |-> Null,
                rows |-> Slice(ls, headerIndex + 1, Len(ls))]
        ELSE rows(Min2(Max2(headerIndex + 1, 0), Len(ls)),
                  Max2(Min2(EndCut(footers[1]), Len(ls) - 1), -1))
      from(headers) ==
        IF headers = <<>> THEN [start |-> Null, end |-> Null, rows |-> <<>>]
        ELSE between(SeqMin([k \in 1..Len(headers) |-> headers[k].rowIndex]),
                     checkIsItFooterLine(ls))
  IN  from(checkIsItHeaderLine(ls))

-----------------------------------------------------------------------------
(* Tokens *)

ReDigit == ReSet(Digits)
ReSpaces == ReStar(ReSet(Space))

\* /^(\d{1,3}(,\d{3})+|\d{4,})$/
isMoneyToken(s) ==
  Test(ReCat(<<ReBol,
          ReAlt(<<ReCat(<<ReRange(ReDigit, 1, 3),
                          RePlus(ReCat(<<ReCh(","), ReCat(ReTimes(ReDigit, 3))>>))>>),
                  ReAtLeast(ReDigit, 4)>>),
          ReEol>>), Trim(s))

RECURSIVE DigitsToNat(_)
\* parseInt(n, 10) of a string of digits
DigitsToNat(ds) ==
  IF ds = <<>> THEN 0
  ELSE 10 * DigitsToNat(SubSeq(ds, 1, Len(ds) - 1))
       + (CHOOSE d \in 0..9 : <<"0", "1", "2", "3", "4", "5", "6", "7", "8", "9">>[d + 1] = ds[Len(ds)])
\* function toIntStrict(s)
toIntStrict(s) ==
  LET n == SelectSeq(s, LAMBDA c : c \in Digits)
  IN  IF n # <<>> THEN Num(DigitsToNat(n)) ELSE Null

\* /^\d{1,2}$/.test(String(s).trim())
isQuantityLike(s) == Test(ReCat(<<ReBol, ReRange(ReDigit, 1, 2), ReEol>>), Trim(s))

\* const isNumericToken = (s) => /^\d+(?:\.\d+)?$/.test(String(s || '').replace(/[\s,]/g, ''))
isNumericToken(s) ==
  Test(ReCat(<<ReBol, RePlus(ReDigit), ReOpt(ReCat(<<ReCh("."), RePlus(ReDigit)>>)), ReEol>>),
       Without(s, Space \cup {","}))

-----------------------------------------------------------------------------
(* RowSanitizer *)


\* const rules = [...] of cleanRowsWithRules, in order
NoiseRules ==
  << ReCat(<<ReWordI(<<"s", "o", "f", "t", "c", "i", "t", "y">>), ReCh("."),
             ReWordI(<<"c", "o">>), ReCh("."), ReWordI(<<"k", "r">>)>>),
     ReCat(<<ReWordI(<<"w", "w", "w">>), ReCh(".")>>),
     ReWordI(<<"N", "O">>),
     ReWordI(<<"B", "O", "X">>),
     ReWordI(<<"E", "A">>),
     ReWordI(<<Ch.teuk, Ch.heo, Ch.chul, Ch.won>>),
     ReCat(<<ReCh("0"), ReSet(BothCases("K")), ReSpaces, ReSet(BothCases("a")),
             ReSet(BothCases("F"))>>),
     ReCat(<<ReWordI(<<Ch.pum, Ch.mok>>), ReSpaces, ReSet({"-", Ch.enDash, Ch.emDash, "~"}), ReSpaces,
             ReWordI(<<Ch.gyu, Ch.gyeok>>)>>),
     ReAlt(<<ReWordI(<<Ch.gyeong, Ch.yeong, Ch.bak, Ch.sa>>), ReWordI(<<"1", Ch.yeong, Ch.bak, Ch.sa>>)>>),
     ReCat(<<ReBol, ReWordI(<<Ch.pum, Ch.mok>>), ReEol>>),
     ReCat(<<ReBol, ReOpt(ReCh("-")), ReSpaces, ReWordI(<<Ch.gyu, Ch.gyeok>>), ReEol>>),
     ReCat(<<ReBol, ReWordI(<<Ch.su, Ch.ryang>>), ReEol>>),
     ReCat(<<ReBol, ReRange(ReDigit, 5, 6), ReCh("-"), ReRange(ReDigit, 2, 5), ReEol>>),
     ReWordI(<<Ch.bak, Ch.sa>>) >>

\* rules.find(rule => rule.pattern.test(col)) is not undefined
MatchesRule(rules, col) == \E k \in DOMAIN rules : Test(rules[k], col)
IsNoise(col) == MatchesRule(NoiseRules, col)

\* const rules = [...] of cleanRowsWithRules in src/test.js: the same list
\* without its last two entries, /^\d{5,6}-\d{2,5}$/i and /U+BC15 U+C0AC/i
NoiseRules_testJs == SubSeq(NoiseRules, 1, Len(NoiseRules) - 2)

\* /^(?:\d{1,2}\.\d{1,2}\s+\S+|[A-Za-z]{2,}\d{2,}|\d{6,})$/
looksLikePrefixId(s) ==
  Test(ReCat(<<ReBol,
          ReAlt(<<ReCat(<<ReRange(ReDigit, 1, 2), ReCh("."), ReRange(ReDigit, 1, 2),
                          RePlus(ReSet(Space)), RePlus(ReNot(Space))>>),
                  ReCat(<<ReAtLeast(ReSet(Latin), 2), ReAtLeast(ReDigit, 2)>>),
                  ReAtLeast(ReDigit, 6)>>),
          ReEol>>), Trim(s))

\* the units (?:kg|g|l|ml|cm|mm|ea) under the i flag
UnitAlt ==
  ReAlt(<<ReWordI(<<"k", "g">>), ReWordI(<<"g">>), ReWordI(<<"l">>), ReWordI(<<"m", "l">>),
          ReWordI(<<"c", "m">>), ReWordI(<<"m", "m">>), ReWordI(<<"e", "a">>)>>)
\* const isUnitToken = (s) => /^(?:kg|g|l|ml|cm|mm|ea)$/i.test(String(s || '').trim())
isUnitToken(s) == Test(ReCat(<<ReBol, UnitAlt, ReEol>>), Trim(s))

\* the first loop over the columns of row r (from 0): the columns kept and the
\* entries pushed to removed
StripNoiseBy(rules, line, r) ==
  LET entry(col, c) == [rowIndex |-> r, colIndex |-> c, line |-> line, column |-> col]
      strip(cs, noise) ==
        [newCols |-> SelectSeq(cs, LAMBDA col : col \notin noise),
         removed |-> LET hit == SelectSeq([c \in 1..Len(cs) |-> c], LAMBDA c : cs[c] \in noise)
                     IN  [k \in 1..Len(hit) |-> entry(cs[hit[k]], hit[k] - 1)]]
      ofCols(cs) == strip(cs, {cs[c] : c \in {c \in 1..Len(cs) : MatchesRule(rules, cs[c])}})
  IN  ofCols(splitToCols(line))
StripNoise(line, r) == StripNoiseBy(NoiseRules, line, r)

\* if (newCols.length >= 7) { ... }: whether column 0 is pruned as an id prefix
PrunesPrefix(newCols) ==
  /\ Len(newCols) >= 7
  /\ LET rest == Tail(newCols)
     IN  /\ ~isMoneyToken(newCols[1])
         /\ looksLikePrefixId(newCols[1])
         \* hasUnit
         /\ \E k \in 1..Len(rest) : isUnitToken(rest[k])
         \* moneyCount >= 2
         /\ Cardinality({k \in 1..Len(rest) : isMoneyToken(rest[k])}) >= 2
         \* quantityCount >= 1
         /\ Cardinality({k \in 1..Len(rest) : isQuantityLike(rest[k])}) >= 1

\* the columns of row r after noise removal and prefix pruning, with the removed entries
FilterRowBy(rules, line, r) ==
  LET prune(st) ==
        IF PrunesPrefix(st.newCols)
          THEN [newCols |-> Tail(st.newCols),
                removed |-> Append(st.removed,
                              [rowIndex |-> r, colIndex |-> 0, line |-> line,
                               column |-> st.newCols[1], reason |-> "prefix_pruned"])]
          ELSE st
  IN  prune(StripNoiseBy(rules, line, r))
FilterRow(line, r) == FilterRowBy(NoiseRules, line, r)

\* a plausible slip: the threshold does not move after the first fill
Threshold_fixed(first) == 5

\* const threshold = firstQueueFill ? 5 : 6
Threshold(first) == IF first THEN 5 ELSE 6

\* const nEffective = n + (hasQuantityLike ? 0 : 1)
EffectiveCount(newCols) ==
  Len(newCols) + (IF \E k \in 1..Len(newCols) : isQuantityLike(newCols[k]) THEN 0 ELSE 1)

\* a plausible slip: the replaced values are not pushed back to the queue
SwapTail_noRequeue(newCols, queue) ==
  LET n == Len(newCols)
      k == Min2(Len(queue), n)
  IN  [newCols |-> SubSeq(newCols, 1, n - k) \o SubSeq(queue, 1, k),
       queue |-> SubSeq(queue, k + 1, Len(queue)),
       moved |-> k]

\* the for loop of the swap branch: the last k cells are replaced by the first k
\* queue values, each replaced value is pushed to the queue's tail
SwapTail(newCols, queue) ==
  LET n == Len(newCols)
      k == Min2(Len(queue), n)
  IN  [newCols |-> SubSeq(newCols, 1, n - k) \o SubSeq(queue, 1, k),
       queue |-> SubSeq(queue, k + 1, Len(queue)) \o SubSeq(newCols, n - k + 1, n),
       moved |-> k]

\* a plausible slip: the values are read from the queue but not shifted off it
AppendFromQueue_noShift(newCols, queue, first) ==
  LET need == Threshold(first) - EffectiveCount(newCols)
      addCount == Max2(0, Min2(Len(queue), need))
  IN  [newCols |-> newCols \o SubSeq(queue, 1, addCount),
       queue |-> queue,
       moved |-> addCount]

\* the for loop of the append branch
AppendFromQueue(newCols, queue, first) ==
  LET need == Threshold(first) - EffectiveCount(newCols)
      addCount == Max2(0, Min2(Len(queue), need))
  IN  [newCols |-> newCols \o SubSeq(queue, 1, addCount),
       queue |-> SubSeq(queue, addCount + 1, Len(queue)),
       moved |-> addCount]

\* a plausible slip: push in place of unshift
Absorb_push(newCols, queue) == queue \o newCols

\* numericQueue.unshift(...newCols)
Absorb(newCols, queue) == newCols \o queue

\* joined.length === 0 is false: the row is pushed to kept
KeepRow(newCols) == Trim(JoinCols(newCols)) # <<>>

\* one iteration of the loop of cleanRowsWithRules from the loop's locals
\* st = [kept, removed, numericQueue, firstQueueFill], once the columns of the
\* row are filtered: f = [newCols, removed]
CleanStepFiltered(st, f) ==
  LET \* the row is kept or dropped after the queue q = [newCols, queue, moved] has acted
      emit(newCols, rem, q, useQueue, append) ==
        [kept |-> IF KeepRow(q.newCols) THEN Append(st.kept, Trim(JoinCols(q.newCols)))
                  ELSE st.kept,
         removed |-> rem,
         numericQueue |-> q.queue,
         firstQueueFill |-> st.firstQueueFill /\ q.moved = 0,
         did |-> [kind |-> IF ~KeepRow(q.newCols) THEN "dropped"
                           ELSE IF ~useQueue THEN "kept"
                           ELSE IF append THEN "append" ELSE "swap",
                  before |-> newCols, out |-> q.newCols, moved |-> q.moved,
                  queueBefore |-> st.numericQueue,
                  threshold |-> Threshold(st.firstQueueFill)]]
      \* if (numericQueue.length > 0 && n > 0) { if (nEffective < threshold) ... else ... }
      fill(newCols, rem, useQueue, append) ==
        emit(newCols, rem,
             IF ~useQueue THEN [newCols |-> newCols, queue |-> st.numericQueue, moved |-> 0]
             ELSE IF append THEN AppendFromQueue(newCols, st.numericQueue, st.firstQueueFill)
             ELSE SwapTail(newCols, st.numericQueue),
             useQueue, append)
      \* if (newCols.length > 0 && newCols.every(isNumericToken)) { ...; return }
      step(newCols, rem, numericLine) ==
        IF numericLine
          THEN [kept |-> st.kept, removed |-> rem,
                numericQueue |-> Absorb(newCols, st.numericQueue),
                firstQueueFill |-> st.firstQueueFill,
                did |-> [kind |-> "absorbed", before |-> newCols, out |-> <<>>, moved |-> 0,
                         queueBefore |-> st.numericQueue, threshold |-> 0]]
          ELSE fill(newCols, rem, st.numericQueue # <<>> /\ newCols # <<>>,
                    EffectiveCount(newCols) < Threshold(st.firstQueueFill))
      ofCols(newCols, rem) ==
        step(newCols, rem,
             newCols # <<>> /\ \A k \in 1..Len(newCols) : isNumericToken(newCols[k]))
  IN  ofCols(f.newCols, st.removed \o f.removed)
\* one iteration of the loop of cleanRowsWithRules on row r (from 0)
CleanStep(st, line, r) == CleanStepFiltered(st, FilterRow(line, r))

RECURSIVE CleanLoop(_, _, _)
CleanLoop(st, rows, r) ==
  IF r >= Len(rows) THEN st
  ELSE CleanLoop(CleanStep(st, rows[r + 1], r), rows, r + 1)

\* function cleanRowsWithRules(rows): { kept, removed }
cleanRowsWithRules(rows) ==
  LET end == CleanLoop([kept |-> <<>>, removed |-> <<>>, numericQueue |-> <<>>,
                        firstQueueFill |-> TRUE], rows, 0)
  IN  [kept |-> end.kept, removed |-> end.removed]

RECURSIVE CleanLoop_testJs(_, _, _)
\* the loop of cleanRowsWithRules in src/test.js: the same statements over its own rules
CleanLoop_testJs(st, rows, r) ==
  IF r >= Len(rows) THEN st
  ELSE CleanLoop_testJs(CleanStepFiltered(st, FilterRowBy(NoiseRules_testJs, rows[r + 1], r)),
                        rows, r + 1)

\* function cleanRowsWithRules(rows) of src/test.js: { kept, removed }
cleanRowsWithRules_testJs(rows) ==
  LET end == CleanLoop_testJs([kept |-> <<>>, removed |-> <<>>, numericQueue |-> <<>>,
                               firstQueueFill |-> TRUE], rows, 0)
  IN  [kept |-> end.kept, removed |-> end.removed]

-----------------------------------------------------------------------------
(* RowParser *)

\* [0-9]+(?:\.[0-9]+)?\s*(?:kg|g|l|ml|cm|mm|ea)(?:\s*\*\s*\d+(?:\s*ea)?)?
UnitSpecRe ==
  ReCat(<<RePlus(ReDigit), ReOpt(ReCat(<<ReCh("."), RePlus(ReDigit)>>)), ReSpaces, UnitAlt,
          ReOpt(ReCat(<<ReSpaces, ReCh("*"), ReSpaces, RePlus(ReDigit),
                        ReOpt(ReCat(<<ReSpaces, ReWordI(<<"e", "a">>)>>))>>))>>)
\* the same followed by (?:\s+\d{1,3})?
UnitSpecCountRe ==
  ReCat(<<UnitSpecRe, ReOpt(ReCat(<<RePlus(ReSet(Space)), ReRange(ReDigit, 1, 3)>>))>>)
\* /-\s*/, the part of the dash patterns before group 1
DashLead == ReCat(<<ReCh("-"), ReSpaces>>)

\* m[1].replace(/\s+/g, ' ').trim() (a run of one space is replaced by itself)
NormalizeSpec(s) ==
  Trim(CollapseSpaces([k \in 1..Len(s) |-> IF s[k] \in Space THEN " " ELSE s[k]]))

\* group 1 of a match m of /-\s*(...)/: what follows the dash and its spaces
DashGroup(s, m) == Slice(s, Ends(DashLead, s, m.index)[1], m.end)

\* function extractSpecificationFromText(text)
extractSpecificationFromText(text) ==
  LET \* m1 && m1[1], m2 && m2[0] (<<>> when falsy)
      group(found, g) == IF found THEN g ELSE <<>>
      pick(g1, g0) == IF g1 # <<>> THEN NormalizeSpec(g1)
                      ELSE IF g0 # <<>> THEN NormalizeSpec(g0)
                      ELSE <<>>
      matches(m1, m2) == pick(group(m1.found, DashGroup(text, m1)),
                              group(m2.found, Slice(text, m2.index, m2.end)))
  IN  matches(Match(ReCat(<<DashLead, UnitSpecRe>>), text),
              Match(ReCat(<<ReWb, UnitSpecRe, ReWb>>), text))

\* the spans of /\([^()]*\)/g in s, as the set of the positions (from 0) they cover
RECURSIVE ParenCover(_, _)
ParenCover(s, from) ==
  LET span(m) == IF ~m.found THEN {} ELSE (m.index..(m.end - 1)) \cup ParenCover(s, m.end)
  IN  span(MatchFrom(ReCat(<<ReCh("("), ReStar(ReNot({"(", ")"})), ReCh(")")>>), s, from))

\* .replace(/[-U+2014]\s*$/, '')
DropTrailingDash(s) ==
  ReplaceFirst(ReCat(<<ReSet({"-", Ch.emDash}), ReSpaces, ReEol>>), s, <<>>)

\* s.replace(m0, '') for a string m0: its first occurrence removed
RemoveFirst(s, m0) ==
  LET at == {k \in 1..Len(s) : IsPrefixAt(s, k, m0)}
  IN  IF at = {} \/ m0 = <<>> THEN s
      ELSE LET k == CHOOSE x \in at : \A y \in at : x <= y
           IN  SubSeq(s, 1, k - 1) \o SubSeq(s, k + Len(m0), Len(s))

RECURSIVE StandaloneSpec(_, _, _)
\* the while loop over re.exec(s) of splitSpecFromItemName, from lastIndex
StandaloneSpec(s, cover, lastIndex) ==
  LET take(m0) == [item |-> Trim(DropTrailingDash(CollapseSpaces(RemoveFirst(s, m0)))),
                   spec |-> NormalizeSpec(m0)]
      exec(m) == IF ~m.found THEN [item |-> Trim(s), spec |-> <<>>]
                 ELSE IF m.index \in cover THEN StandaloneSpec(s, cover, m.end)
                 ELSE take(Slice(s, m.index, m.end))
  IN  exec(MatchFrom(ReCat(<<ReWb, UnitSpecCountRe, ReWb>>), s, lastIndex))

\* function splitSpecFromItemName(text)
splitSpecFromItemName(text) ==
  LET split(afterDash, standalone) ==
        IF afterDash.found
          THEN [item |-> Trim(DropTrailingDash(Slice(text, 0, afterDash.index))),
                spec |-> NormalizeSpec(DashGroup(text, afterDash))]
          ELSE standalone
  IN  split(Match(ReCat(<<DashLead, UnitSpecCountRe>>), text),
            StandaloneSpec(text, ParenCover(text, 0), 0))

\* const normalizeDigits = (s) => String(s || '').replace(/[\s,.-]/g, '')
normalizeDigits(s) == Without(s, Space \cup {",", ".", "-"})
\* /^\d+$/.test(s)
IsDigitRun(s) == s # <<>> /\ AllDigits(s)
\* /[A-Za-z U+AC00-U+D7A3]/.test(s)
HasLetter(s) == \E k \in 1..Len(s) : s[k] \in Latin \cup Hangul

\* the for loop of the numeric-item rule: the first later column promoted to
\* item name (0 when there is none), columns counted from 0
PromotedIndex(cs) ==
  LET \* if (!cand) continue; if (/^\d+$/.test(candDigits)) continue; if (... || ...) { ... break }
      promotes(cand) == /\ cand # <<>>
                        /\ ~IsDigitRun(normalizeDigits(cand))
                        /\ (HasLetter(cand) \/ Len(normalizeDigits(cand)) > 0)
      first(ok) == IF ok = {} THEN 0 ELSE CHOOSE j \in ok : \A i \in ok : j <= i
  IN  first({j \in 1..(Len(cs) - 1) : promotes(Trim(cs[j + 1]))})

\* the item name and specification of parseItemRow after the split of column 0
\* and the numeric-item rule; rejected when the item stays purely numeric
ItemAndSpec(cs) ==
  LET names(numeric, j, item2, spec2) ==
        [item |-> item2, spec |-> spec2, promoted |-> IF numeric THEN j ELSE 0,
         rejected |-> numeric /\ IsDigitRun(normalizeDigits(item2))]
      promote(split, numeric, j, split2) ==
        names(numeric, j,
              IF numeric /\ j > 0 THEN split2.item ELSE split.item,
              IF numeric /\ j > 0 /\ split.spec = <<>> THEN split2.spec ELSE split.spec)
      promoteTo(split, j, split2) ==
        promote(split, IsDigitRun(normalizeDigits(split.item)), j, split2)
  IN  promoteTo(splitSpecFromItemName(Trim(cs[1])), PromotedIndex(cs),
                splitSpecFromItemName(Trim(cs[PromotedIndex(cs) + 1])))

\* the specification after the column-1 fallback and the '-' rule
Specification(cs, spec) ==
  LET \* if (specification && specification.trim() === '-') specification = null
      dash(s) == IF Trim(s) = <<"-">> THEN Null ELSE Str(s)
      \* specification = extracted || nextCol
      fallback(nextCol, extracted) == IF extracted # <<>> THEN extracted ELSE nextCol
      from(nextCol) ==
        dash(IF spec = <<>> /\ Len(cs) > 1 /\ ~isQuantityLike(nextCol)
               THEN fallback(nextCol, extractSpecificationFromText(nextCol))
               ELSE spec)
  IN  from(Trim(cs[2]))

\* a plausible slip: the loop starts at column 0
QuantityCandidates_fromZero(cs) ==
  SelectSeq([i \in 1..Len(cs) |-> i - 1], LAMBDA i : isQuantityLike(cs[i + 1]))

\* quantityCandidates: the columns i >= 1 (from 0) that are 1-2 digit integers
QuantityCandidates(cs) ==
  SelectSeq([i \in 1..(Len(cs) - 1) |-> i], LAMBDA i : isQuantityLike(cs[i + 1]))

\* a plausible slip: the n >= 1000 test is left out
MoneyFrom_anyValue(cs, from) ==
  SelectSeq([i \in 1..(Len(cs) - from) |-> from + i - 1],
            LAMBDA i : isMoneyToken(cs[i + 1]) /\ toIntStrict(cs[i + 1]) # Null)

\* money: the columns from index `from` on that are money tokens of value >= 1000
MoneyFrom(cs, from) ==
  SelectSeq([i \in 1..(Len(cs) - from) |-> from + i - 1],
            LAMBDA i : /\ isMoneyToken(cs[i + 1])
                       /\ toIntStrict(cs[i + 1]) # Null
                       /\ toIntStrict(cs[i + 1]).n >= 1000)

\* a plausible slip: the first two money columns are taken, adjacent or not
MoneyPair_firstTwo(money) ==
  [unit |-> IF Len(money) >= 1 THEN money[1] ELSE -1,
   supply |-> IF Len(money) >= 2 THEN money[2] ELSE -1]

\* the column indices chosen for unitPrice and supplyAmount, -1 for null
MoneyPair(money) ==
  LET adj == {k \in 1..(Len(money) - 1) : money[k + 1] = money[k] + 1}
      later == {k \in 1..Len(money) : money[k] > money[1]}
  IN  IF adj # {}
        THEN LET k == CHOOSE x \in adj : \A y \in adj : x <= y
             IN  [unit |-> money[k], supply |-> money[k + 1]]
      ELSE IF Len(money) >= 1
        THEN [unit |-> money[1],
              supply |-> IF later = {} THEN -1
                         ELSE money[CHOOSE x \in later : \A y \in later : x <= y]]
      ELSE [unit |-> -1, supply |-> -1]

\* the locals of parseItemRow(cols) at its end; column indices count from 0, -1 is null
parseItemLocals(cs) ==
  LET \* if (quantityCandidates.length === 1) quantityIndex = quantityCandidates[0]
      quantityIndex1(cands) == IF Len(cands) = 1 THEN cands[1] ELSE -1
      \* the fallback of quantityIndex: the first candidate that is neither money column
      quantityIndex(cands, free) ==
        IF quantityIndex1(cands) = -1 /\ free # <<>> THEN free[1] ELSE quantityIndex1(cands)
      locals(names, specification, cands, pair) ==
        [rejected |-> cs = <<>> \/ Trim(cs[1]) = <<>> \/ names.rejected \/ pair.unit = -1,
         item |-> names.item,
         promoted |-> names.promoted,
         specification |-> specification,
         quantityIndex |->
           quantityIndex(cands, SelectSeq(cands, LAMBDA i : i # pair.unit /\ i # pair.supply)),
         unitPriceIndex |-> pair.unit,
         supplyAmountIndex |-> pair.supply]
      \* const startIdx = Math.max(1, quantityIndex !== null ? quantityIndex + 1 : 1)
      startIdx(q) == Max2(1, IF q # -1 THEN q + 1 ELSE 1)
      named(names, cands) ==
        locals(names, Specification(cs, names.spec), cands,
               MoneyPair(MoneyFrom(cs, startIdx(quantityIndex1(cands)))))
  IN  named(ItemAndSpec(cs), QuantityCandidates(cs))

\* the value parseItemRow(cols) returns: <<>> for null, else the list of the one object
parseItemRow(cs) ==
  LET item(v) ==
        IF cs = <<>> \/ v.rejected THEN <<>>
        ELSE <<[item |-> v.item,
                specification |-> v.specification,
                quantity |-> IF v.quantityIndex = -1 THEN Null
                             ELSE Num(DigitsToNat(Trim(cs[v.quantityIndex + 1]))),
                unitPrice |-> toIntStrict(cs[v.unitPriceIndex + 1]),
                supplyAmount |-> IF v.supplyAmountIndex = -1 THEN Null
                                 ELSE toIntStrict(cs[v.supplyAmountIndex + 1]),
                vat |-> Undefined]>>
  IN  item(parseItemLocals(cs))

\* function parseItemsFromRows(rows)
parseItemsFromRows(rows) ==
  Flatten([k \in 1..Len(rows) |->
             SelectSeq(parseItemRow(splitToCols(rows[k])), LAMBDA it : it.unitPrice # Null)])

\* parsedItems.forEach(item => { if (item.supplyAmount) item.vat = calculateVAT(item.supplyAmount) })
AttachVat(it) ==
  IF Truthy(it.supplyAmount) THEN [it EXCEPT !.vat = calculateVAT(it.supplyAmount)] ELSE it

-----------------------------------------------------------------------------
(* SchemaValidator *)

\* a plausible slip: the separators are not removed before the test
isValidMoney_strict(val) == Len(val) >= 4 /\ AllDigits(val)

\* const isValidMoney = (val) => ... /^\d{4,}$/.test(String(val).replace(/[,\s]/g, ''))
isValidMoney(val) ==
  val # <<>> /\ Test(ReCat(<<ReBol, ReAtLeast(ReDigit, 4), ReEol>>), Without(val, Space \cup {","}))

\* const isValidQuantity = (val) => ... /^\d{1,3}$/.test(String(val).replace(/[,\s]/g, ''))
isValidQuantity(val) ==
  val # <<>> /\ Test(ReCat(<<ReBol, ReRange(ReDigit, 1, 3), ReEol>>), Without(val, Space \cup {","}))

\* const isValidItem = (val) => ... /[U+AC00-U+D7A3 A-Za-z]/.test(val)
isValidItem(val) == Trim(val) # <<>> /\ HasLetter(val)

\* the first element of a set of indices, -1 when it is empty
FirstOf(S) == IF S = {} THEN -1 ELSE CHOOSE x \in S : \A y \in S : x <= y

\* the body of rows.forEach((row, index) => ...) of validateRowSchema: the
\* validation record of one row; column indices count from 0, -1 is null
ValidateRow(rowText, index) ==
  LET none == [item |-> Undefined, specification |-> Undefined, quantity |-> Undefined,
               unitPrice |-> Undefined, supplyAmount |-> Undefined, vat |-> Undefined]
      record(cs, schema, issues, moneyCount) ==
        [base |-> [rowIndex |-> index, row |-> rowText, cols |-> cs, colCount |-> Len(cs)],
         schema |-> schema, issues |-> issues, moneyCount |-> moneyCount]
      \* the nullability checks on the schema of a row whose columns were located
      checked(cs, quantityCol, schema, moneyCount) ==
        record(cs, schema,
               (IF quantityCol = -1 THEN <<"Missing quantity">> ELSE <<>>)
               \o (IF ~Truthy(schema.item) THEN <<"Item cannot be null">> ELSE <<>>)
               \o (IF ~Truthy(schema.quantity) THEN <<"Quantity cannot be null">> ELSE <<>>)
               \o (IF ~Truthy(schema.unitPrice) THEN <<"Unit price cannot be null">> ELSE <<>>)
               \o (IF ~Truthy(schema.supplyAmount) THEN <<"Supply amount cannot be null">>
                   ELSE <<>>),
               moneyCount)
      val(cs, i) == IF i = -1 THEN Null ELSE Str(cs[i + 1])
      \* unitPriceCol = moneyTokens[0], supplyAmountCol = moneyTokens[1], vatCol = moneyTokens[2]
      located(cs, itemCol, moneyTokens, quantityCol, specCol) ==
        checked(cs, quantityCol,
                [item |-> val(cs, itemCol), specification |-> val(cs, specCol),
                 quantity |-> val(cs, quantityCol), unitPrice |-> val(cs, moneyTokens[1]),
                 supplyAmount |-> val(cs, moneyTokens[2]),
                 vat |-> val(cs, IF Len(moneyTokens) >= 3 THEN moneyTokens[3] ELSE -1)],
                Len(moneyTokens))
      \* the specification column lies between item and quantity
      withQuantity(cs, itemCol, moneyTokens, quantityCol) ==
        located(cs, itemCol, moneyTokens, quantityCol,
                IF quantityCol = -1 THEN -1
                ELSE FirstOf({i \in 0..(Len(cs) - 1) :
                                /\ i > itemCol /\ i < quantityCol
                                /\ ~isValidQuantity(cs[i + 1]) /\ ~isValidMoney(cs[i + 1])}))
      \* the quantity column lies between item and unit price
      withMoney(cs, itemCol, moneyTokens) ==
        IF Len(moneyTokens) < 2
          THEN record(cs, none, <<"Missing required money values">>, Len(moneyTokens))
        ELSE withQuantity(cs, itemCol, moneyTokens,
                          FirstOf({i \in 0..(Len(cs) - 1) :
                                     /\ i > itemCol /\ i < moneyTokens[1]
                                     /\ isValidQuantity(cs[i + 1])}))
      withItem(cs, itemCol) ==
        IF itemCol = -1 THEN record(cs, none, <<"Missing item name">>, 0)
        ELSE withMoney(cs, itemCol,
                       SelectSeq([i \in 1..Len(cs) |-> i - 1],
                                 LAMBDA i : isValidMoney(cs[i + 1])))
      ofCols(cs) ==
        IF Len(cs) < 4 THEN record(cs, none, <<"Insufficient columns">>, 0)
        ELSE withItem(cs, FirstOf({i \in 0..(Len(cs) - 1) : isValidItem(cs[i + 1])}))
  IN  ofCols(splitToCols(rowText))

\* a plausible slip: a row rejected by an early return is pushed to neither list
validateRowSchema_dropEarly(rows) ==
  LET split(recs) == [valid |-> SelectSeq(recs, LAMBDA v : v.issues = <<>>),
                      invalid |-> SelectSeq(recs, LAMBDA v : v.issues # <<>> /\ v.moneyCount >= 2)]
  IN  split([k \in 1..Len(rows) |-> ValidateRow(rows[k], k - 1)])

\* function validateRowSchema(rows): { valid, invalid }
validateRowSchema(rows) ==
  LET split(recs) == [valid |-> SelectSeq(recs, LAMBDA v : v.issues = <<>>),
                      invalid |-> SelectSeq(recs, LAMBDA v : v.issues # <<>>)]
  IN  split([k \in 1..Len(rows) |-> ValidateRow(rows[k], k - 1)])

-----------------------------------------------------------------------------
(* main, steps 1 to 7 *)

\* a plausible slip: the queue and the flag declared outside the function, so
\* that a call finds what the call before it left
CleanLocals_static ==
  [kept |-> <<>>, removed |-> <<>>,
   numericQueue |-> IF calls = 0 THEN <<>> ELSE numericQueue,
   firstQueueFill |-> IF calls = 0 THEN TRUE ELSE firstQueueFill]

\* const kept = []; const removed = []; const numericQueue = []; let firstQueueFill = true;
CleanLocals == [kept |-> <<>>, removed |-> <<>>, numericQueue |-> <<>>, firstQueueFill |-> TRUE]

\* const validRowsWithVAT = schemaValidation.valid.map(v => ...)
validRowsWithVAT(valid) ==
  LET backfill(schema) ==
        IF Truthy(schema.supplyAmount) /\ ~Truthy(schema.vat)
          THEN [schema EXCEPT !.vat =
                  calculateVAT(Num(DigitsToNat(Without(schema.supplyAmount.s, Space \cup {","}))))]
        ELSE schema
  IN  [k \in 1..Len(valid) |-> backfill(valid[k].schema)]

\* const refinedData = { schemaValidation: {...}, parsedItems, cleanedRows }
refinedDataOf(validation, items, cleanedRows) ==
  [schemaValidation |->
     [validCount |-> Len(validation.valid),
      invalidCount |-> Len(validation.invalid),
      validRows |-> validRowsWithVAT(validation.valid),
      invalidRows |-> [k \in 1..Len(validation.invalid) |->
                         [row |-> validation.invalid[k].base.row,
                          issues |-> validation.invalid[k].issues]]],
   parsedItems |-> items,
   cleanedRows |-> cleanedRows]

-----------------------------------------------------------------------------
(* Bounds and inputs *)

\* calculateVAT is applied to every supply amount 0..MaxSupply
MaxSupply == 120
\* the OCR texts are the strings of at most MaxTextLen characters of TextChars
MaxTextLen == 4
\* the documents are the lists of at most MaxLines lines of LinePool
MaxLines == 4
\* cleanRowsWithRules is run on the lists of at most MaxRows rows of RowPool
MaxRows == 4
\* a cleaned row has at most MaxCols columns of TokenPool
MaxCols == 4

\* main is run on the texts of at most MaxDocLines lines of PipeLines
MaxDocLines == 3

\* the value of a variable that the specification at hand does not use
Idle == "idle"

SeqsUpTo(S, n) == UNION {[1..k -> S] : k \in 0..n}

\* the examples of refinedData.vatCalculationExample
VatExamples == {6727, 133364, 10000}
VatInputs == {Num(s) : s \in (0..MaxSupply) \cup VatExamples} \cup {Null, Undefined, NaN}

\* the OCR texts: a quote, a letter, white space, a comma and the characters of the literal \n
Texts == SeqsUpTo({"\"", "a", " ", "\n", "\t", ",", "\\", "n"}, MaxTextLen)

\* the documents: lists of a header line, a data line, a banner line, an assignee
\* line and a header line whose label is split over two cells
Documents ==
  SeqsUpTo({<<Ch.dan, Ch.ga>>, <<"A">>, <<"=", Ch.ha, Ch.yeo, Ch.baek, "=">>,
            <<Ch.in, Ch.su, Ch.ja>>, JoinCols(<<<<"A">>, <<Ch.dan>>, <<Ch.ga>>>>)}, MaxLines)

T_item == <<Ch.pum, Ch.myeong, "A">>
T_kg == <<"5", "k", "g">>
T_dashKg == <<"-", "5", "k", "g">>
T_qty == <<"1", "0">>
T_unit == <<"5", ",", "0", "0", "0">>
T_supply == <<"5", "0", ",", "0", "0", "0">>
T_small == <<"0", ",", "5", "0", "0">>
T_mark == <<"#">>
\* the cleaned rows that begin with a number: a quantity followed by at most
\* MaxCols columns, among them one that has no letter and no digit
NumericLedRows ==
  {JoinCols(<<T_qty>> \o cs) : cs \in SeqsUpTo({T_mark, T_item, T_unit, T_supply}, MaxCols)}
\* the cleaned rows: one to MaxCols columns joined by ' | ', and the rows that
\* begin with a number
CleanedRows ==
  {JoinCols(cs) : cs \in SeqsUpTo({T_item, T_kg, T_dashKg, T_qty, T_unit, T_supply, T_small},
                                  MaxCols) \ {<<>>}}
    \cup NumericLedRows

\* the sliced rows: a short data row, the same with a noise column, a short
\* data row with a quantity, a full data row, a data row of five columns and
\* three numeric lines
RowPool ==
  {JoinCols(<<<<Ch.pum>>, T_unit>>), JoinCols(<<<<Ch.pum>>, <<Ch.bak, Ch.sa>>, T_unit>>),
   JoinCols(<<<<Ch.pum>>, T_qty>>),
   JoinCols(<<T_item, T_kg, T_unit, T_supply>>),
   JoinCols(<<T_item, T_kg, T_unit, T_supply, T_small>>),
   <<"7">>, JoinCols(<<<<"1">>, <<"2">>>>), JoinCols(<<<<"1">>, <<"2">>, <<"3">>>>)}

\* ocrResult.ParsedResults[0]?.ParsedText || '': the lines are a header, a full
\* data row, a short data row, a stray number, the banner and a blank line
PipeTexts ==
  {JoinWith(doc, <<"\n">>) :
     doc \in SeqsUpTo({<<Ch.dan, Ch.ga>>, JoinCols(<<T_item, T_qty, T_unit, T_supply>>),
                       JoinCols(<<<<Ch.pum>>, T_unit>>), <<"7">>,
                       <<"=", Ch.ha, Ch.yeo, Ch.baek, "=">>, <<" ">>}, MaxDocLines)}

\* the sliced rows of six and seven columns: column 0 is an alphanumeric code,
\* a run of six or seven digits, a date with a word, or no identifier (a
\* syllable, a short code, five digits, a grouped amount); the rest holds a
\* unit or not, a quantity or not, two amounts or one
WideRows ==
  {JoinCols(<<col0, T_item, unit, qty, T_unit, money>> \o filler) :
     col0 \in {<<"A", "B", "1", "2">>, <<"1", "2", "3", "4", "5", "6">>,
               <<"1", "2", "3", "4", "5", "6", "7">>, <<"1", "2", ".", "0", "5", " ", "x">>,
               <<Ch.pum>>, <<"A", "1">>, <<"1", "2", "3", "4", "5">>, T_unit},
     unit \in {<<"k", "g">>, T_kg}, qty \in {T_qty, <<"A">>}, money \in {T_supply, <<"B">>},
     filler \in {<<>>, <<<<"x">>>>}}

-----------------------------------------------------------------------------
(* Specifications *)

\* the variables of the components other than c rest
IdleExcept(c) ==
  /\ IF c = "vat" THEN TRUE ELSE vatIn = Idle /\ vatOut = Idle
  /\ IF c = "text" THEN TRUE ELSE ocrText = Idle /\ cleanedText = Idle /\ applied = 0
  /\ IF c = "slice" THEN TRUE ELSE lines = Idle /\ slice = Idle
  /\ IF c = "clean" THEN TRUE
     ELSE /\ rowsIn = Idle /\ kept = Idle /\ removed = Idle /\ numericQueue = Idle
          /\ firstQueueFill = Idle /\ trace = Idle
  /\ IF c = "main" THEN TRUE
     ELSE row = Idle /\ schemaValidation = Idle /\ parsedItems = Idle /\ mainPc = Idle
  /\ IF c = "pipe" THEN TRUE ELSE refinedData = Idle /\ calls = Idle
  /\ IF c = "run" THEN TRUE
     ELSE /\ entryPoint = Idle /\ runPc = Idle /\ environment = Idle
          /\ resizedImagePath = Idle /\ isTemporaryFile = Idle /\ tempFiles = Idle

\* calculateVAT(supplyAmount) is called and returns
InitVat == vatIn = Pending /\ vatOut = Pending /\ IdleExcept("vat")
CalculateVAT ==
  /\ vatOut = Pending
  /\ \E s \in VatInputs : vatIn' = s /\ vatOut' = calculateVAT(s)
  /\ UNCHANGED <<ocrText, cleanedText, applied, lines, slice, rowsIn, kept, removed,
                 numericQueue, firstQueueFill, trace, row, schemaValidation, parsedItems,
                 mainPc, refinedData, calls, runFrame>>
SpecVat == InitVat /\ [][CalculateVAT]_vars

\* cleanOcrText is applied to an OCR text, then once more to its own result
InitText == ocrText \in Texts /\ cleanedText = Pending /\ applied = 0 /\ IdleExcept("text")
CleanOcrText ==
  /\ applied < 2
  /\ cleanedText' = cleanOcrText(IF applied = 0 THEN ocrText ELSE cleanedText)
  /\ applied' = applied + 1
  /\ UNCHANGED <<vatIn, vatOut, ocrText, lines, slice, rowsIn, kept, removed, numericQueue,
                 firstQueueFill, trace, row, schemaValidation, parsedItems, mainPc, refinedData, calls, runFrame>>
SpecText == InitText /\ [][CleanOcrText]_vars

\* main, step 4: the cleaned lines are sliced between header and footer
InitSlice == lines \in Documents /\ slice = Pending /\ IdleExcept("slice")
SliceRows ==
  /\ slice = Pending
  /\ slice' = sliceRowsBetweenHeaderFooter(lines)
  /\ UNCHANGED <<vatIn, vatOut, ocrText, cleanedText, applied, lines, rowsIn, kept, removed,
                 numericQueue, firstQueueFill, trace, row, schemaValidation, parsedItems,
                 mainPc, refinedData, calls, runFrame>>
SpecSlice == InitSlice /\ [][SliceRows]_vars

\* main, step 5: the loop of cleanRowsWithRules takes the rows one by one
InitClean ==
  /\ rowsIn = <<>> /\ kept = <<>> /\ removed = <<>> /\ numericQueue = <<>>
  /\ firstQueueFill = TRUE /\ trace = <<>>
  /\ IdleExcept("clean")
CleanRow ==
  /\ Len(rowsIn) < MaxRows
  /\ \E line \in RowPool :
       \E st \in {CleanStep([kept |-> kept, removed |-> removed, numericQueue |-> numericQueue,
                             firstQueueFill |-> firstQueueFill], line, Len(rowsIn))} :
         /\ rowsIn' = Append(rowsIn, line)
         /\ kept' = st.kept
         /\ removed' = st.removed
         /\ numericQueue' = st.numericQueue
         /\ firstQueueFill' = st.firstQueueFill
         /\ trace' = Append(trace, st.did)
  /\ UNCHANGED <<vatIn, vatOut, ocrText, cleanedText, applied, lines, slice, row,
                 schemaValidation, parsedItems, mainPc, refinedData, calls, runFrame>>
SpecClean == InitClean /\ [][CleanRow]_vars

\* cleanRowsWithRules on a list of one wide row
CleanWideRow ==
  /\ rowsIn = <<>>
  /\ \E line \in WideRows :
       \E st \in {CleanStep([kept |-> kept, removed |-> removed, numericQueue |-> numericQueue,
                             firstQueueFill |-> firstQueueFill], line, 0)} :
         /\ rowsIn' = <<line>>
         /\ kept' = st.kept
         /\ removed' = st.removed
         /\ numericQueue' = st.numericQueue
         /\ firstQueueFill' = st.firstQueueFill
         /\ trace' = <<st.did>>
  /\ UNCHANGED <<vatIn, vatOut, ocrText, cleanedText, applied, lines, slice, row,
                 schemaValidation, parsedItems, mainPc, refinedData, calls, runFrame>>
SpecWide == InitClean /\ [][CleanWideRow]_vars

\* the variables that steps 5.5 to 7 of main leave alone
mainFrame == <<vatIn, vatOut, ocrText, cleanedText, applied, lines, slice, rowsIn, kept,
               removed, numericQueue, firstQueueFill, trace, row, refinedData, calls, runFrame>>

\* main, steps 5.5 to 7, with cleaned.kept a list of one row
InitMain ==
  /\ row \in CleanedRows /\ schemaValidation = Pending /\ parsedItems = Pending
  /\ mainPc = "validate"
  /\ IdleExcept("main")
\* const schemaValidation = validateRowSchema(cleaned.kept)
ValidateRows ==
  /\ mainPc = "validate"
  /\ schemaValidation' = validateRowSchema(<<row>>)
  /\ mainPc' = "parse"
  /\ UNCHANGED <<mainFrame, parsedItems>>
\* const parsedItems = parseItemsFromRows(cleaned.kept)
ParseItems ==
  /\ mainPc = "parse"
  /\ parsedItems' = parseItemsFromRows(<<row>>)
  /\ mainPc' = "vat"
  /\ UNCHANGED <<mainFrame, schemaValidation>>
\* parsedItems.forEach(...), after which refinedData is built
AttachVats ==
  /\ mainPc = "vat"
  /\ parsedItems' = [k \in 1..Len(parsedItems) |-> AttachVat(parsedItems[k])]
  /\ mainPc' = "done"
  /\ UNCHANGED <<mainFrame, schemaValidation>>
NextMain == ValidateRows \/ ParseItems \/ AttachVats
SpecMain == InitMain /\ [][NextMain]_vars

\* main from the image to the clean-up, in src/unnamed/part_000 and in src/test.js
EntryPoints == {"part_000", "test.js"}
\* resizedImagePath before downsizeImage has returned, originalImagePath, tempPath
NoPath == "null"
OriginalImage == "original"
TempImage == "temp"
\* the image is smaller than 900KB, between 900KB and 1MB, larger than 1MB
ImageSizes == {"small", "optimal", "large"}

\* what downsizeImage(originalImagePath) can return and leave on disk: the path
\* given when the size is optimal or when sharp throws (the rewrite of a first
\* attempt that is still too large unlinks tempPath before it writes again),
\* else tempPath with the file written
downsizeImage(imageSize) ==
  IF imageSize = "optimal" THEN {[path |-> OriginalImage, written |-> {}]}
  ELSE {[path |-> OriginalImage, written |-> {}], [path |-> TempImage, written |-> {TempImage}]}

InitRun ==
  /\ entryPoint \in EntryPoints
  /\ environment \in [imageExists : BOOLEAN, imageSize : ImageSizes, apiKey : BOOLEAN]
  /\ runPc = "start" /\ resizedImagePath = NoPath /\ isTemporaryFile = FALSE /\ tempFiles = {}
  /\ IdleExcept("run")
\* the variables of the steps of main that a run passes over
stepsFrame == <<vatIn, vatOut, ocrText, cleanedText, applied, lines, slice, rowsIn, kept,
                removed, numericQueue, firstQueueFill, trace, row, schemaValidation,
                parsedItems, mainPc, refinedData, calls>>
\* if (!fs.existsSync(originalImagePath)) throw new Error(...)
RunFindImage ==
  /\ runPc = "start"
  /\ runPc' = IF environment.imageExists THEN "downsize" ELSE "catch"
  /\ UNCHANGED <<stepsFrame, entryPoint, environment, resizedImagePath, isTemporaryFile,
                 tempFiles>>
\* resizedImagePath = await downsizeImage(originalImagePath);
\* isTemporaryFile = resizedImagePath !== originalImagePath (part_000 only)
RunDownsize ==
  /\ runPc = "downsize"
  /\ \E out \in downsizeImage(environment.imageSize) :
       /\ resizedImagePath' = out.path
       /\ tempFiles' = tempFiles \cup out.written
       /\ isTemporaryFile' = (entryPoint = "part_000" /\ out.path # OriginalImage)
  /\ runPc' = "key"
  /\ UNCHANGED <<stepsFrame, entryPoint, environment>>
\* if (!ocrApiKey) throw new Error(...)
RunReadKey ==
  /\ runPc = "key"
  /\ runPc' = IF environment.apiKey THEN "ocr" ELSE "catch"
  /\ UNCHANGED <<stepsFrame, entryPoint, environment, resizedImagePath, isTemporaryFile,
                 tempFiles>>
\* const ocrResult = await ocrSpace(...): the promise resolves or rejects
RunOcr ==
  /\ runPc = "ocr"
  /\ \E resolved \in BOOLEAN : runPc' = IF resolved THEN "process" ELSE "catch"
  /\ UNCHANGED <<stepsFrame, entryPoint, environment, resizedImagePath, isTemporaryFile,
                 tempFiles>>
\* the steps from the OCR text to the output: in part_000
\* ocrResult.ParsedResults[0] or processWithGemini can throw, after which the
\* catch block runs; test.js goes on to its clean-up inside the try block
RunProcess ==
  /\ runPc = "process"
  /\ \E thrown \in (IF entryPoint = "part_000" THEN BOOLEAN ELSE {FALSE}) :
       runPc' = IF thrown THEN "catch"
                ELSE IF entryPoint = "test.js" THEN "cleanup" ELSE "finally"
  /\ UNCHANGED <<stepsFrame, entryPoint, environment, resizedImagePath, isTemporaryFile,
                 tempFiles>>
\* test.js, the end of the try block:
\* if (imagePath !== originalImagePath && fs.existsSync(imagePath)) fs.unlinkSync(imagePath)
RunCleanup ==
  /\ runPc = "cleanup"
  /\ tempFiles' = IF resizedImagePath # OriginalImage /\ resizedImagePath \in tempFiles
                    THEN tempFiles \ {resizedImagePath} ELSE tempFiles
  /\ runPc' = "finally"
  /\ UNCHANGED <<stepsFrame, entryPoint, environment, resizedImagePath, isTemporaryFile>>
\* catch (error) { console.error(...) }
RunCatch ==
  /\ runPc = "catch"
  /\ runPc' = "finally"
  /\ UNCHANGED <<stepsFrame, entryPoint, environment, resizedImagePath, isTemporaryFile,
                 tempFiles>>
\* finally: part_000 unlinks the file if (isTemporaryFile && resizedImagePath &&
\* fs.existsSync(resizedImagePath)); test.js only stops its timers
RunFinally ==
  /\ runPc = "finally"
  /\ tempFiles' = IF /\ entryPoint = "part_000" /\ isTemporaryFile
                       /\ resizedImagePath # NoPath /\ resizedImagePath \in tempFiles
                    THEN tempFiles \ {resizedImagePath} ELSE tempFiles
  /\ runPc' = "done"
  /\ UNCHANGED <<stepsFrame, entryPoint, environment, resizedImagePath, isTemporaryFile>>
NextRun ==
  \/ RunFindImage \/ RunDownsize \/ RunReadKey \/ RunOcr \/ RunProcess
  \/ RunCleanup \/ RunCatch \/ RunFinally
SpecRun == InitRun /\ [][NextRun]_vars

\* the variables that no step of main uses
pipeFrame == <<vatIn, vatOut, applied, rowsIn, trace, row, runFrame>>

\* main, steps 1 to 7, run on an OCR text and then on a second one; the locals
\* of a call that has returned stay as they were (nothing reads them)
InitPipe ==
  /\ ocrText \in PipeTexts /\ calls = 0 /\ mainPc = "cleanText"
  /\ cleanedText = Pending /\ lines = Pending /\ slice = Pending
  /\ kept = Pending /\ removed = Pending /\ numericQueue = Pending /\ firstQueueFill = Pending
  /\ schemaValidation = Pending /\ parsedItems = Pending /\ refinedData = Pending
  /\ vatIn = Idle /\ vatOut = Idle /\ applied = 0 /\ rowsIn = Idle /\ trace = Idle /\ row = Idle
  /\ entryPoint = Idle /\ runPc = Idle /\ environment = Idle
  /\ resizedImagePath = Idle /\ isTemporaryFile = Idle /\ tempFiles = Idle
\* const cleanedText = cleanOcrText(ocrText)
PipeCleanText ==
  /\ mainPc = "cleanText"
  /\ cleanedText' = cleanOcrText(ocrText)
  /\ mainPc' = "split"
  /\ UNCHANGED <<pipeFrame, ocrText, lines, slice, kept, removed, numericQueue, firstQueueFill,
                 schemaValidation, parsedItems, refinedData, calls>>
\* const lines = cleanedText.split('\n')
PipeSplit ==
  /\ mainPc = "split"
  /\ lines' = SplitOn(cleanedText, "\n")
  /\ mainPc' = "slice"
  /\ UNCHANGED <<pipeFrame, ocrText, cleanedText, slice, kept, removed, numericQueue,
                 firstQueueFill, schemaValidation, parsedItems, refinedData, calls>>
\* const slice = sliceRowsBetweenHeaderFooter(lines)
PipeSlice ==
  /\ mainPc = "slice"
  /\ slice' = sliceRowsBetweenHeaderFooter(lines)
  /\ mainPc' = "clean"
  /\ UNCHANGED <<pipeFrame, ocrText, cleanedText, lines, kept, removed, numericQueue,
                 firstQueueFill, schemaValidation, parsedItems, refinedData, calls>>
\* const cleaned = cleanRowsWithRules(slice.rows): the locals are created, the loop runs
PipeClean ==
  /\ mainPc = "clean"
  /\ \E end \in {CleanLoop(CleanLocals, slice.rows, 0)} :
       /\ kept' = end.kept
       /\ removed' = end.removed
       /\ numericQueue' = end.numericQueue
       /\ firstQueueFill' = end.firstQueueFill
  /\ mainPc' = "validate"
  /\ UNCHANGED <<pipeFrame, ocrText, cleanedText, lines, slice, schemaValidation, parsedItems,
                 refinedData, calls>>
\* const schemaValidation = validateRowSchema(cleaned.kept)
PipeValidate ==
  /\ mainPc = "validate"
  /\ schemaValidation' = validateRowSchema(kept)
  /\ mainPc' = "parse"
  /\ UNCHANGED <<pipeFrame, ocrText, cleanedText, lines, slice, kept, removed, numericQueue,
                 firstQueueFill, parsedItems, refinedData, calls>>
\* const parsedItems = parseItemsFromRows(cleaned.kept)
PipeParse ==
  /\ mainPc = "parse"
  /\ parsedItems' = parseItemsFromRows(kept)
  /\ mainPc' = "vat"
  /\ UNCHANGED <<pipeFrame, ocrText, cleanedText, lines, slice, kept, removed, numericQueue,
                 firstQueueFill, schemaValidation, refinedData, calls>>
\* parsedItems.forEach(item => ...)
PipeVat ==
  /\ mainPc = "vat"
  /\ parsedItems' = [k \in 1..Len(parsedItems) |-> AttachVat(parsedItems[k])]
  /\ mainPc' = "refine"
  /\ UNCHANGED <<pipeFrame, ocrText, cleanedText, lines, slice, kept, removed, numericQueue,
                 firstQueueFill, schemaValidation, refinedData, calls>>
\* const refinedData = {...}
PipeRefine ==
  /\ mainPc = "refine"
  /\ refinedData' = refinedDataOf(schemaValidation, parsedItems, kept)
  /\ mainPc' = "done"
  /\ UNCHANGED <<pipeFrame, ocrText, cleanedText, lines, slice, kept, removed, numericQueue,
                 firstQueueFill, schemaValidation, parsedItems, calls>>
\* the steps are run once more, on another OCR text
PipeAgain ==
  /\ mainPc = "done" /\ calls = 0
  /\ ocrText' \in PipeTexts
  /\ calls' = 1 /\ mainPc' = "cleanText"
  /\ cleanedText' = Pending /\ lines' = Pending /\ slice' = Pending
  /\ kept' = Pending /\ removed' = Pending
  /\ schemaValidation' = Pending /\ parsedItems' = Pending /\ refinedData' = Pending
  /\ UNCHANGED <<pipeFrame, numericQueue, firstQueueFill>>
NextPipe ==
  \/ PipeCleanText \/ PipeSplit \/ PipeSlice \/ PipeClean \/ PipeValidate \/ PipeParse
  \/ PipeVat \/ PipeRefine \/ PipeAgain
SpecPipe == InitPipe /\ [][NextPipe]_vars

-----------------------------------------------------------------------------
(* Claims *)

\* ceil(s / 10) in integer arithmetic
CeilTenth(s) == (s + 9) \div 10

\* C1: for every integer supply amount s >= 0 calculateVAT(s) is the integer
\* ceil(s / 10), and it is 0 for null, undefined and NaN.
C1_VatIsCeilTenth ==
  vatOut # Pending =>
    /\ vatIn.k = "num" => vatOut = Num(CeilTenth(vatIn.n))
    /\ vatIn \in {Null, Undefined, NaN} => vatOut = Num(0)
\* 6727 * 0.1 is fractional and is rounded up to 673
C1_Witness == vatIn = Num(6727) /\ vatOut = Num(673)

\* the columns of a row that are pure numeric tokens only
AllNumeric(cs) == cs # <<>> /\ \A k \in 1..Len(cs) : isNumericToken(cs[k])
\* the standalone numeric lines between two data rows, by their place in rowsIn
NumericBetweenData ==
  {i \in 2..(Len(rowsIn) - 1) :
     /\ AllNumeric(splitToCols(rowsIn[i]))
     /\ ~AllNumeric(splitToCols(rowsIn[i - 1]))
     /\ ~AllNumeric(splitToCols(rowsIn[i + 1]))}
InRow(token, cs) == \E k \in 1..Len(cs) : cs[k] = token

\* C2: for a purely numeric standalone line between two data rows, no kept row
\* equals the line verbatim and every token of the line appears in the kept
\* output of a row adjacent to it.
C2_NumericLineRedistributed ==
  \A i \in NumericBetweenData :
    /\ \A k \in 1..Len(kept) : kept[k] # rowsIn[i]
    /\ \A c \in 1..Len(splitToCols(rowsIn[i])) :
         \/ InRow(splitToCols(rowsIn[i])[c], trace[i - 1].out)
         \/ InRow(splitToCols(rowsIn[i])[c], trace[i + 1].out)

\* C3: no row of kept consists only of pure numeric tokens.
C3_NoNumericKeptRow ==
  \A k \in 1..Len(kept) : ~AllNumeric(splitToCols(kept[k]))

\* C4: every accepted item has a non-empty item name.
C4_ItemNameNonEmpty ==
  mainPc \in {"vat", "done"} =>
    \A k \in 1..Len(parsedItems) : Trim(parsedItems[k].item) # <<>>

\* the integer a money or quantity column denotes
TokenValue(token) == DigitsToNat(SelectSeq(token, LAMBDA c : c \in Digits))
IsMoneyColumn(token) == isMoneyToken(token) /\ TokenValue(token) >= 1000
\* an item name without a unit pattern, a quantity column, two adjacent money columns
PlainRowShape(cs) ==
  /\ Len(cs) = 4
  /\ HasLetter(cs[1])
  /\ extractSpecificationFromText(cs[1]) = <<>>
  /\ isQuantityLike(cs[2])
  /\ IsMoneyColumn(cs[3])
  /\ IsMoneyColumn(cs[4])

\* C5: a row of an item name without a unit pattern, one quantity column and two
\* adjacent money columns parses to item = column 0, specification = null,
\* quantity, unitPrice, supplyAmount = the columns' integers, vat = ceil(supplyAmount * 0.1).
C5_PlainRowParses ==
  (mainPc = "done" /\ PlainRowShape(splitToCols(row))) =>
    LET cs == splitToCols(row)
    IN  parsedItems = <<[item |-> cs[1], specification |-> Null,
                         quantity |-> Num(TokenValue(cs[2])),
                         unitPrice |-> Num(TokenValue(cs[3])),
                         supplyAmount |-> Num(TokenValue(cs[4])),
                         vat |-> Num(CeilTenth(TokenValue(cs[4])))]>>

\* 0-based footer row, header row and footer type of the document
FooterOf(ls) == checkIsItFooterLine(ls)[1]
HeaderRowOf(ls) ==
  LET hs == checkIsItHeaderLine(ls)
  IN  CHOOSE r \in 0..(Len(ls) - 1) :
        /\ \E k \in 1..Len(hs) : hs[k].rowIndex = r
        /\ \A k \in 1..Len(hs) : hs[k].rowIndex >= r
BothFound(ls) == checkIsItHeaderLine(ls) # <<>> /\ checkIsItFooterLine(ls) # <<>>
\* the rows a..b (from 0, inclusive) of a document
RowsBetween(ls, a, b) == [k \in 1..(b - a + 1) |-> ls[a + k]]

\* C6 as stated: a banner footer at row f removes 1 preceding row (the slice
\* ends at row f-2), an assignee footer removes 2 (the slice ends at row f-3).
C6_FooterRemovesOneOrTwo ==
  (slice # Pending /\ BothFound(lines)) =>
    LET f == FooterOf(lines)
        gone == IF f.type = "footer_marker" THEN 1 ELSE 2
    IN  slice.rows = RowsBetween(lines, HeaderRowOf(lines) + 1, f.rowIndex - 1 - gone)
\* C6 (amended): with header row h and footer row f both found, the slice is
\* the rows h+1 .. f-1 for a banner footer (no row before the banner is
\* removed) and the rows h+1 .. f-2 for an assignee footer (only row f-1 is removed).
C6_FooterOffset ==
  (slice # Pending /\ BothFound(lines)) =>
    LET f == FooterOf(lines)
        last == IF f.type = "footer_marker" THEN f.rowIndex - 1 ELSE f.rowIndex - 2
    IN  slice.rows = RowsBetween(lines, HeaderRowOf(lines) + 1, last)
\* a banner two or more rows after the header: row f-1 is the last row of the slice
C6_Witness ==
  /\ slice # Pending /\ BothFound(lines)
  /\ FooterOf(lines).type = "footer_marker"
  /\ FooterOf(lines).rowIndex - 1 > HeaderRowOf(lines)
  /\ slice.rows # <<>>
  /\ slice.rows[Len(slice.rows)] = lines[FooterOf(lines).rowIndex]

\* C7: cleanOcrText applied to its own output returns that output unchanged.
C7_CleanOcrTextIdempotent == [][applied = 1 => cleanedText' = cleanedText]_vars

\* C8: every accepted item has a unitPrice >= 1000 taken from a column after
\* column 0; a row without a money column of value >= 1000 is rejected; a
\* non-null supplyAmount is >= 1000 and comes from a column after the unitPrice column.
C8_UnitPriceAtLeast1000 ==
  mainPc \in {"vat", "done"} =>
    LET cs == splitToCols(row)
        \* the value of each money-like column after column 0, -1 for the other columns
        amount == [i \in 1..Len(cs) |->
                     IF i > 1 /\ isMoneyToken(cs[i]) THEN TokenValue(cs[i]) ELSE -1]
    IN  /\ \A k \in 1..Len(parsedItems) :
             LET it == parsedItems[k]
             IN  /\ it.unitPrice.k = "num" /\ it.unitPrice.n >= 1000
                 /\ \E i \in 1..Len(cs) : amount[i] = it.unitPrice.n
                 /\ it.supplyAmount # Null =>
                      /\ it.supplyAmount.k = "num" /\ it.supplyAmount.n >= 1000
                      /\ \E i \in 1..Len(cs) : \E j \in (i + 1)..Len(cs) :
                           amount[i] = it.unitPrice.n /\ amount[j] = it.supplyAmount.n
        /\ (\A i \in 1..Len(cs) : amount[i] < 1000) => parsedItems = <<>>
\* an accepted row with both amounts in which a money-like column below 1000 was passed over
C8_Witness ==
  /\ mainPc = "done"
  /\ \E i \in 2..Len(splitToCols(row)) : splitToCols(row)[i] = T_small
  /\ Len(parsedItems) = 1
  /\ parsedItems[1].unitPrice = Num(5000)
  /\ parsedItems[1].supplyAmount = Num(50000)

\* C9: every entryPoint of parsedItems in the final result carries an integer vat,
\* equal to ceil(supplyAmount * 0.1) when its supplyAmount is known.
C9_EveryItemCarriesVat ==
  mainPc = "done" =>
    \A k \in 1..Len(parsedItems) :
      /\ parsedItems[k].vat.k = "num"
      /\ parsedItems[k].supplyAmount.k = "num" =>
           parsedItems[k].vat.n = CeilTenth(parsedItems[k].supplyAmount.n)

CommaGrouped(token) == \E k \in 1..Len(token) : token[k] = ","
\* the issue with which validateRowSchema reports fewer than 2 money tokens
TooFewMoney(rec) == rec.issues = <<"Missing required money values">>
RecordsOf(recs, k) == {i \in 1..Len(recs) : recs[i].base.rowIndex = k}

\* C11: validateRowSchema partitions the cleaned rows: every cleaned row has
\* exactly one validation record, which is in valid when its issue list is
\* empty and in invalid otherwise, and in refinedData validCount plus
\* invalidCount is the number of cleanedRows
C11_ValidationPartitions ==
  /\ mainPc \in {"parse", "vat", "refine", "done"} =>
       /\ \A k \in 0..(Len(kept) - 1) :
            /\ Cardinality(RecordsOf(schemaValidation.valid, k))
                 + Cardinality(RecordsOf(schemaValidation.invalid, k)) = 1
            /\ \A i \in RecordsOf(schemaValidation.valid, k) :
                 schemaValidation.valid[i].base.row = kept[k + 1]
            /\ \A i \in RecordsOf(schemaValidation.invalid, k) :
                 schemaValidation.invalid[i].base.row = kept[k + 1]
       /\ \A i \in 1..Len(schemaValidation.valid) : schemaValidation.valid[i].issues = <<>>
       /\ \A i \in 1..Len(schemaValidation.invalid) : schemaValidation.invalid[i].issues # <<>>
  /\ mainPc = "done" =>
       /\ refinedData.schemaValidation.validCount + refinedData.schemaValidation.invalidCount
            = Len(refinedData.cleanedRows)
       /\ refinedData.cleanedRows = kept
\* a run has ended with a valid and an invalid row
C11_Witness ==
  /\ mainPc = "done"
  /\ refinedData.schemaValidation.validCount >= 1
  /\ refinedData.schemaValidation.invalidCount >= 1

\* C12: when no line of the document gives a header hit, the slice is empty
\* whatever footers the text contains, and the run ends with empty cleanedRows,
\* empty parsedItems and validCount = invalidCount = 0
C12_NoHeaderEmptyResult ==
  (mainPc \notin {"cleanText", "split", "slice"} /\ checkIsItHeaderLine(lines) = <<>>) =>
    /\ slice = [start |-> Null, end |-> Null, rows |-> <<>>]
    /\ mainPc \notin {"clean"} => kept = <<>>
    /\ mainPc = "done" =>
         /\ refinedData.cleanedRows = <<>>
         /\ refinedData.parsedItems = <<>>
         /\ refinedData.schemaValidation.validCount = 0
         /\ refinedData.schemaValidation.invalidCount = 0
         /\ refinedData.schemaValidation.validRows = <<>>
         /\ refinedData.schemaValidation.invalidRows = <<>>
\* a run on a text with a banner and data rows but no header has ended
C12_Witness ==
  /\ mainPc = "done"
  /\ checkIsItHeaderLine(lines) = <<>>
  /\ checkIsItFooterLine(lines) # <<>>
  /\ Len(lines) >= 2

\* a line is non-empty, has no white space at either end and no two white-space
\* characters in a row
IsCleanLine(line) ==
  /\ line # <<>>
  /\ line[1] \notin Space /\ line[Len(line)] \notin Space
  /\ \A k \in 1..(Len(line) - 1) : ~(line[k] \in Space /\ line[k + 1] \in Space)

\* C13 as stated: the lines handed to the table locator are all non-empty,
\* trimmed and free of runs of white space, and for an OCR text that is empty
\* or only white space they are the empty sequence
C13_LocatorGetsCleanLines ==
  mainPc \notin {"cleanText", "split"} =>
    /\ \A k \in 1..Len(lines) : IsCleanLine(lines[k])
    /\ (\A k \in 1..Len(ocrText) : ocrText[k] \in Space) => lines = <<>>

\* main from ocrText to refinedData as one function of the OCR text
mainResult(text) ==
  LET attach(items) == [k \in 1..Len(items) |-> AttachVat(items[k])]
      ofKept(rows) == refinedDataOf(validateRowSchema(rows), attach(parseItemsFromRows(rows)), rows)
  IN  ofKept(cleanRowsWithRules(
               sliceRowsBetweenHeaderFooter(SplitOn(cleanOcrText(text), "\n")).rows).kept)

\* C14: the pipeline keeps nothing between invocations: whatever text was
\* processed before, the rows kept and removed are those of cleanRowsWithRules
\* started with an empty queue and the first-fill flag set, and the result for
\* a text is the result of processing that text alone
C14_NoStateBetweenRuns ==
  /\ mainPc \in {"validate", "parse", "vat", "refine", "done"} =>
       [kept |-> kept, removed |-> removed] = cleanRowsWithRules(slice.rows)
  /\ mainPc = "done" => refinedData = mainResult(ocrText)
\* a second text with a short row after the header has been processed to the end
C14_Witness ==
  /\ calls = 1 /\ mainPc = "done"
  /\ Len(refinedData.cleanedRows) >= 1
  /\ Len(splitToCols(refinedData.cleanedRows[1])) = 2

\* the columns i (from 0) of a row at which two adjacent cells spell the unit-price label
LabelPairs(cs) ==
  {i \in 0..(Len(cs) - 2) : StripSpaces(cs[i + 1] \o cs[i + 2]) = <<Ch.dan, Ch.ga>>}

\* C15: a line with two adjacent cells whose concatenation, white space
\* removed, is the unit-price label gives a header hit on that row with
\* startCol and endCol covering both cells, and the slice starts no later than
\* the row after it
C15_StitchedHeaderHit ==
  LET covered(hits, r, i) ==
        \E k \in 1..Len(hits) :
          hits[k].rowIndex = r /\ hits[k].startCol = i /\ hits[k].endCol = i + 1
      all(hits) ==
        \A r \in 0..(Len(lines) - 1) :
          \A i \in LabelPairs(splitToCols(lines[r + 1])) :
            /\ covered(hits, r, i)
            /\ slice # Pending => (slice.start # Null /\ slice.start.n <= r + 1)
  IN  all(checkIsItHeaderLine(lines))
\* a document whose only header is a label split over two cells has been sliced
C15_Witness ==
  /\ slice # Pending
  /\ \E r \in 0..(Len(lines) - 1) : LabelPairs(splitToCols(lines[r + 1])) # {}
  /\ \A r \in 1..Len(lines) : lines[r] # <<Ch.dan, Ch.ga>>
  /\ slice.rows # <<>>

\* C16: with h the lowest header row, the slice is the rows h+1 .. e of the
\* document, both included, where e is the banner row - 1 or the assignee row
\* - 2, clamped to -1 .. length-1, and is empty when h+1 > e; when no footer is
\* found the slice is every row after row h
C16_SliceIsInclusiveRange ==
  LET clamp(e) == Max2(-1, Min2(e, Len(lines) - 1))
      endOf(f) == clamp(IF f.type = "footer_marker" THEN f.rowIndex - 1 ELSE f.rowIndex - 2)
      range(h, e) == IF h + 1 > e THEN <<>> ELSE RowsBetween(lines, h + 1, e)
      expected(h, footers) ==
        IF footers = <<>> THEN RowsBetween(lines, h + 1, Len(lines) - 1)
        ELSE range(h, endOf(footers[1]))
  IN  (slice # Pending /\ checkIsItHeaderLine(lines) # <<>>) =>
        slice.rows = expected(HeaderRowOf(lines), checkIsItFooterLine(lines))
\* an assignee line three rows after the header: one row is left in the slice
C16_Witness ==
  /\ slice # Pending /\ BothFound(lines)
  /\ FooterOf(lines).type = "assignee"
  /\ FooterOf(lines).rowIndex = HeaderRowOf(lines) + 3
  /\ slice.rows = <<lines[HeaderRowOf(lines) + 2]>>

\* the rows (from 0) of a document that match the banner
BannerRows(ls) == {r \in 0..(Len(ls) - 1) : Test(FOOTER_MARKER_REGEX, ls[r + 1])}
\* the rows (from 0) of a document with a cell that matches the assignee label
AssigneeRows(ls) ==
  LET inRow(cs) ==
        \E c \in 1..Len(cs) : Test(makeLooseRegexFromKeyword(<<Ch.in, Ch.su, Ch.ja>>), cs[c])
  IN  {r \in 0..(Len(ls) - 1) : inRow(splitToCols(ls[r + 1]))}
\* the least element of a non-empty set of rows
FirstRow(S) == CHOOSE x \in S : \A y \in S : x <= y

\* C17: footer detection returns the first row that matches the banner
\* whenever one exists, even when an assignee cell stands on a lower row; only
\* without a banner does it return the assignee hit of the lowest row; without
\* either it returns no footer.  The slice of a document with a header ends accordingly.
C17_BannerBeforeAssignee ==
  LET is(footers, type, r) ==
        /\ Len(footers) = 1 /\ footers[1].type = type /\ footers[1].rowIndex = r
        /\ (slice # Pending /\ checkIsItHeaderLine(lines) # <<>>) =>
             slice.end = Num(Max2(-1, IF type = "footer_marker" THEN r - 1 ELSE r - 2))
      check(footers, banners, assignees) ==
        IF banners # {} THEN is(footers, "footer_marker", FirstRow(banners))
        ELSE IF assignees # {} THEN is(footers, "assignee", FirstRow(assignees))
        ELSE footers = <<>>
  IN  check(checkIsItFooterLine(lines), BannerRows(lines), AssigneeRows(lines))
\* a document with a header, then an assignee line, then a banner has been
\* sliced up to the row before the banner
C17_Witness ==
  /\ slice # Pending /\ BothFound(lines)
  /\ BannerRows(lines) # {} /\ AssigneeRows(lines) # {}
  /\ HeaderRowOf(lines) < FirstRow(AssigneeRows(lines))
  /\ FirstRow(AssigneeRows(lines)) < FirstRow(BannerRows(lines))
  /\ slice.end = Num(FirstRow(BannerRows(lines)) - 1)

\* the queue after iteration i of the loop of cleanRowsWithRules
QueueAfter(i) == IF i < Len(trace) THEN trace[i + 1].queueBefore ELSE numericQueue
\* whether iteration i took values from the queue
UsedQueue(i) == trace[i].kind \in {"append", "swap"} /\ trace[i].moved > 0
\* the values that iteration i put into its row from the queue, left to right
HandedOut(i) ==
  SubSeq(trace[i].out, Len(trace[i].out) - trace[i].moved + 1, Len(trace[i].out))

\* C18: the tokens of an absorbed numeric line are placed at the front of the
\* queue, left to right; a row that uses the queue is handed the front of the
\* queue in order; so after two stray numeric lines A then B a data row is
\* handed the tokens of B before any token of A
C18_LaterLineServedFirst ==
  /\ \A i \in 1..Len(trace) :
       /\ trace[i].kind = "absorbed" =>
            QueueAfter(i) = trace[i].before \o trace[i].queueBefore
       /\ UsedQueue(i) => HandedOut(i) = SubSeq(trace[i].queueBefore, 1, trace[i].moved)
  /\ \A i \in 1..(Len(trace) - 2) :
       (trace[i].kind = "absorbed" /\ trace[i + 1].kind = "absorbed" /\ UsedQueue(i + 2)) =>
         HandedOut(i + 2)
           = SubSeq(trace[i + 1].before \o trace[i].before \o trace[i].queueBefore,
                    1, trace[i + 2].moved)
\* the lines '1 | 2' and then '7' were absorbed and the next row took '7' and '1'
C18_Witness ==
  /\ Len(trace) >= 3
  /\ trace[1].kind = "absorbed" /\ Len(trace[1].before) >= 2
  /\ trace[2].kind = "absorbed" /\ Len(trace[2].before) = 1
  /\ UsedQueue(3) /\ trace[3].moved = 2
  /\ HandedOut(3) = <<trace[2].before[1], trace[1].before[1]>>

\* a column that is an integer of one or two digits
IsSmallInteger(col) == Len(col) \in 1..2 /\ \A k \in 1..Len(col) : col[k] \in Digits
\* n + 1 when no column is an integer of one or two digits, n otherwise
EffectiveOf(cs) == Len(cs) + (IF \E k \in 1..Len(cs) : IsSmallInteger(cs[k]) THEN 0 ELSE 1)
\* 5 until a row of this invocation has taken values from the queue, 6 from then on
ThresholdAt(i) == IF \E j \in 1..(i - 1) : UsedQueue(j) THEN 6 ELSE 5
\* iteration i met a row that is not purely numeric, with columns left and a non-empty queue
QueueRow(i) ==
  /\ trace[i].kind # "absorbed"
  /\ trace[i].before # <<>>
  /\ trace[i].queueBefore # <<>>

\* C19: for a row that is not purely numeric, with n >= 1 columns left and a
\* non-empty queue, the effective count is n + 1 if no column is an integer of
\* one or two digits and n otherwise; the threshold is 5 while no earlier row
\* of the invocation has taken from the queue and 6 ever after; when the
\* effective count is below the threshold, exactly min(queue length, threshold
\* - effective count) values leave the front of the queue and are appended to
\* the row in order, the rest of the queue staying as it was
C19_AppendBelowThreshold ==
  LET take(i) == Min2(Len(trace[i].queueBefore), ThresholdAt(i) - EffectiveOf(trace[i].before))
  IN  \A i \in 1..Len(trace) :
        QueueRow(i) =>
          /\ trace[i].threshold = ThresholdAt(i)
          /\ (trace[i].kind = "append") = (EffectiveOf(trace[i].before) < ThresholdAt(i))
          /\ EffectiveOf(trace[i].before) < ThresholdAt(i) =>
               /\ trace[i].moved = take(i)
               /\ trace[i].out
                    = trace[i].before \o SubSeq(trace[i].queueBefore, 1, take(i))
               /\ QueueAfter(i)
                    = SubSeq(trace[i].queueBefore, take(i) + 1, Len(trace[i].queueBefore))
\* after an earlier row took from the queue, a row with a quantity column and
\* two columns in all is filled under the threshold of 6, and a value stays queued
C19_Witness ==
  \E i \in 1..Len(trace) :
    /\ QueueRow(i) /\ ThresholdAt(i) = 6
    /\ EffectiveOf(trace[i].before) = 2
    /\ trace[i].moved >= 2
    /\ Len(trace[i].out) = 2 + trace[i].moved

\* C20: for a row of n columns that finds the queue non-empty and whose
\* effective count is at least the threshold, with k = min(queue length, n):
\* the last k columns are replaced, in order, by the first k values of the
\* queue, and the k replaced values go to the tail of the queue in order; the
\* row keeps n columns, its first n - k columns are unchanged, and the queue
\* keeps its length
C20_SwapKeepsLengths ==
  LET swapped(before, queue, out, after, k) ==
        /\ Len(out) = Len(before)
        /\ SubSeq(out, 1, Len(before) - k) = SubSeq(before, 1, Len(before) - k)
        /\ SubSeq(out, Len(before) - k + 1, Len(before)) = SubSeq(queue, 1, k)
        /\ Len(after) = Len(queue)
        /\ SubSeq(after, 1, Len(queue) - k) = SubSeq(queue, k + 1, Len(queue))
        /\ SubSeq(after, Len(queue) - k + 1, Len(queue))
             = SubSeq(before, Len(before) - k + 1, Len(before))
  IN  \A i \in 1..Len(trace) :
        (QueueRow(i) /\ EffectiveOf(trace[i].before) >= ThresholdAt(i)) =>
          /\ trace[i].kind = "swap"
          /\ swapped(trace[i].before, trace[i].queueBefore, trace[i].out, QueueAfter(i),
                     Min2(Len(trace[i].queueBefore), Len(trace[i].before)))
\* a row of five columns met a queue of two values under the threshold of 6
C20_Witness ==
  \E i \in 1..Len(trace) :
    /\ QueueRow(i) /\ ThresholdAt(i) = 6
    /\ trace[i].kind = "swap"
    /\ Len(trace[i].before) = 5
    /\ Len(trace[i].queueBefore) = 2
    /\ trace[i].out # trace[i].before

\* the columns of a row look like a full data row behind a leading identifier
LooksPrefixed(cs) ==
  /\ Len(cs) >= 7
  /\ looksLikePrefixId(cs[1])
  /\ \E k \in 2..Len(cs) : isUnitToken(cs[k])
  /\ Cardinality({k \in 2..Len(cs) : isMoneyToken(cs[k])}) >= 2
  /\ \E k \in 2..Len(cs) : IsSmallInteger(cs[k])

\* C21 as stated: a row of seven or more columns after noise removal whose
\* column 0 looks like a leading identifier (date-like, alphanumeric code, run
\* of six or more digits) and whose other columns hold a unit token, at least
\* two money tokens and an integer of one or two digits loses column 0; every
\* other row keeps it
C21_PrefixPruned ==
  LET pruned(cs, out) == out = (IF LooksPrefixed(cs) THEN Tail(cs) ELSE cs)
  IN  \A i \in 1..Len(trace) :
        pruned(StripNoise(rowsIn[i], i - 1).newCols, trace[i].before)

\* the item name that column 0 gives is purely numeric
NumericItem(cs) == IsDigitRun(normalizeDigits(splitSpecFromItemName(Trim(cs[1])).item))
\* the later columns (counted from 0) that hold a Latin or Hangul letter
LetterColumns(cs) == {j \in 1..(Len(cs) - 1) : HasLetter(Trim(cs[j + 1]))}

\* C22 as stated: when the item name from column 0 is purely numeric, the item
\* becomes the first later column that holds a Latin or Hangul letter, split
\* again into name and specification; a column without a letter is never
\* promoted, and the row is rejected when the item stays purely numeric
C22_FirstLetterColumnPromoted ==
  LET first(S) == CHOOSE j \in S : \A i \in S : j <= i
      scanned(cs, items, letters) ==
        NumericItem(cs) =>
          /\ letters = {} => items = <<>>
          /\ \A k \in 1..Len(items) :
                /\ items[k].item = splitSpecFromItemName(Trim(cs[first(letters) + 1])).item
                /\ ~IsDigitRun(normalizeDigits(items[k].item))
  IN  mainPc \in {"vat", "done"} =>
        scanned(splitToCols(row), parseItemRow(splitToCols(row)), LetterColumns(splitToCols(row)))

\* the least element of a non-empty set of column indices, -1 for the empty set
FirstIn(S) == IF S = {} THEN -1 ELSE CHOOSE j \in S : \A i \in S : j <= i
\* the columns i >= 1 (counted from 0) that are integers of one or two digits
SmallIntegerColumns(cs) == {i \in 1..(Len(cs) - 1) : IsSmallInteger(cs[i + 1])}
\* the quantity column chosen before the money search: the only such column, else -1
ChosenQuantity(cs) ==
  IF Cardinality(SmallIntegerColumns(cs)) = 1 THEN FirstIn(SmallIntegerColumns(cs)) ELSE -1
\* the money columns of value >= 1000 behind the chosen quantity column
MoneyBehindQuantity(cs) ==
  {i \in (ChosenQuantity(cs) + 1)..(Len(cs) - 1) : i >= 1 /\ IsMoneyColumn(cs[i + 1])}
\* the value of column i (counted from 0) as a field of an item, null for -1
FieldAt(cs, i) == IF i = -1 THEN Null ELSE Num(TokenValue(cs[i + 1]))

\* C23: among the money columns of value >= 1000 behind the chosen quantity
\* column (from column 1 on when no quantity is chosen yet), unitPrice and
\* supplyAmount are the first two at adjacent indices; without an adjacent
\* pair unitPrice is the first money column and supplyAmount the next later
\* one, or null; a money column before the chosen quantity column is not used
C23_AdjacentMoneyPair ==
  LET paired(cs, v, money, adj) ==
        /\ v.unitPriceIndex = (IF adj # {} THEN FirstIn(adj) ELSE FirstIn(money))
        /\ v.supplyAmountIndex =
             (IF adj # {} THEN FirstIn(adj) + 1
              ELSE FirstIn({i \in money : i > FirstIn(money)}))
        /\ v.unitPriceIndex > ChosenQuantity(cs)
        /\ v.supplyAmountIndex # -1 => v.supplyAmountIndex > ChosenQuantity(cs)
        /\ \A k \in 1..Len(parsedItems) :
              /\ parsedItems[k].unitPrice = FieldAt(cs, v.unitPriceIndex)
              /\ parsedItems[k].supplyAmount = FieldAt(cs, v.supplyAmountIndex)
      searched(cs, money) ==
        parsedItems # <<>> =>
          paired(cs, parseItemLocals(cs), money, {i \in money : i + 1 \in money})
  IN  mainPc \in {"vat", "done"} =>
        searched(splitToCols(row), MoneyBehindQuantity(splitToCols(row)))
\* an accepted row whose first money column stands alone and whose next two are adjacent
C23_Witness ==
  /\ mainPc = "done"
  /\ Len(parsedItems) = 1
  /\ MoneyBehindQuantity(splitToCols(row)) = {1, 3, 4}
  /\ parsedItems[1].unitPrice = Num(5000)
  /\ parsedItems[1].supplyAmount = Num(50000)

\* C24: in an accepted row, of the columns of index >= 1 that are integers of
\* one or two digits: the only one is the quantity; of several, the quantity
\* is the first whose index is neither that of unitPrice nor that of
\* supplyAmount; quantity is null only when there is no such column
C24_QuantityColumn ==
  LET chosen(cs, v, small) ==
        /\ v.quantityIndex =
             (IF Cardinality(small) = 1 THEN FirstIn(small)
              ELSE FirstIn(small \ {v.unitPriceIndex, v.supplyAmountIndex}))
        /\ v.quantityIndex = -1 <=> small = {}
        /\ \A k \in 1..Len(parsedItems) :
              parsedItems[k].quantity = FieldAt(cs, v.quantityIndex)
      counted(cs) ==
        parsedItems # <<>> => chosen(cs, parseItemLocals(cs), SmallIntegerColumns(cs))
  IN  mainPc \in {"vat", "done"} => counted(splitToCols(row))
\* an accepted row with two such columns, the first of which is the quantity
C24_Witness ==
  /\ mainPc = "done"
  /\ Len(parsedItems) = 1
  /\ Cardinality(SmallIntegerColumns(splitToCols(row))) = 2
  /\ parsedItems[1].quantity = Num(10)
  /\ parsedItems[1].unitPrice = Num(5000)

\* the column (counted from 0) that the specification of an item is taken
\* from: column 0 when its split gives one, else the promoted column when its
\* split gives one, else column 1 unless it is a quantity; -1 when there is none
SpecificationColumn(cs, promoted) ==
  IF splitSpecFromItemName(Trim(cs[1])).spec # <<>> THEN 0
  ELSE IF promoted > 0 /\ splitSpecFromItemName(Trim(cs[promoted + 1])).spec # <<>>
    THEN promoted
  ELSE IF Len(cs) > 1 /\ ~IsSmallInteger(Trim(cs[2])) THEN 1
  ELSE -1

\* C28 as stated: in an item that parseItemRow returns no column of index >= 1
\* supplies two fields: the columns of the promoted item, the specification,
\* the quantity, unitPrice and supplyAmount are pairwise distinct
C28_OneFieldPerColumn ==
  LET distinct(used) ==
        \A a, b \in 1..Len(used) : (a # b /\ used[a] >= 1) => used[a] # used[b]
      fields(cs, v) ==
        distinct(<<IF v.promoted > 0 THEN v.promoted ELSE -1,
                   SpecificationColumn(cs, v.promoted),
                   v.quantityIndex, v.unitPriceIndex, v.supplyAmountIndex>>)
      returned(cs) == parsedItems # <<>> => fields(cs, parseItemLocals(cs))
  IN  mainPc \in {"vat", "done"} => returned(splitToCols(row))

\* C29 as stated: a cleaned row that validateRowSchema puts in valid is
\* accepted by parseItemRow, and the unitPrice and supplyAmount of the parsed
\* item are the integer values of the validator's unitPrice and supplyAmount
\* columns of that row
C29_ValidRowsAreParsed ==
  LET agree(schema, items) ==
        /\ items # <<>>
        /\ \A k \in 1..Len(items) :
              /\ items[k].unitPrice = Num(TokenValue(schema.unitPrice.s))
              /\ items[k].supplyAmount = Num(TokenValue(schema.supplyAmount.s))
  IN  mainPc \in {"vat", "done"} =>
        \A i \in 1..Len(schemaValidation.valid) :
          agree(schemaValidation.valid[i].schema, parsedItems)

\* how often a token occurs in a list of tokens
Count(token, tokens) == Cardinality({k \in 1..Len(tokens) : tokens[k] = token})
\* the column tokens of a list of rows, row by row
TokensOf(rows) == Flatten([k \in 1..Len(rows) |-> splitToCols(rows[k])])
\* the columns recorded in removed
RemovedColumns == [k \in 1..Len(removed) |-> removed[k].column]

\* C26: after any sequence of rows, the column tokens of the kept rows
\* together with the tokens in the numeric queue are, as a multiset, the
\* column tokens of the input rows less the columns recorded in removed; no
\* token is duplicated, and a token left in the queue is in neither list
C26_TokensConserved ==
  LET conserved(input, out, queue, gone) ==
        \A t \in {input[k] : k \in 1..Len(input)} \cup {out[k] : k \in 1..Len(out)}
                \cup {queue[k] : k \in 1..Len(queue)} \cup {gone[k] : k \in 1..Len(gone)} :
          Count(t, out) + Count(t, queue) + Count(t, gone) = Count(t, input)
  IN  conserved(TokensOf(rowsIn), TokensOf(kept), numericQueue, RemovedColumns)
\* a noise column was removed, a row took values from the queue and a value stays queued
C26_Witness ==
  /\ removed # <<>>
  /\ numericQueue # <<>>
  /\ \E i \in 1..Len(trace) : UsedQueue(i) /\ trace[i].kind = "swap"
  /\ \E i \in 1..Len(trace) : UsedQueue(i) /\ trace[i].kind = "append"

\* C27 as stated: the numeric queue holds pure numeric tokens only at every
\* point of cleanRowsWithRules, so every token appended to or swapped into a
\* later row is numeric
C27_QueueHoldsNumbers ==
  LET numeric(tokens) == \A k \in 1..Len(tokens) : isNumericToken(tokens[k])
  IN  /\ numeric(numericQueue)
      /\ \A i \in 1..Len(trace) :
            /\ numeric(trace[i].queueBefore)
            /\ UsedQueue(i) => numeric(HandedOut(i))

\* C25 as stated: the two copies of the pipeline are equivalent: on every list
\* of sliced rows cleanRowsWithRules of src/test.js returns the kept rows that
\* the copy of src/unnamed/part_000 returns, and parseItemsFromRows then
\* yields the same items
C25_CopiesAgree ==
  LET same(keptTestJs) ==
        /\ keptTestJs = kept
        /\ parseItemsFromRows(keptTestJs) = parseItemsFromRows(kept)
  IN  same(cleanRowsWithRules_testJs(rowsIn).kept)

\* C30 as stated: in both entry points, when downsizeImage returned the path
\* of a temporary resized image, that file is deleted by the time main
\* finishes, also when the OCR call fails or the API key is missing
C30_TempFileDeleted ==
  (runPc = "done" /\ resizedImagePath = TempImage) => TempImage \notin tempFiles

====
